---- MODULE Spec2Model ----
(***************************************************************************)
(* A model of the MySQL class of index.js: the connection pool, the        *)
(* backend's tables, the files on disk, and the promise chains of the      *)
(* class's methods, from query to mergeFiles.                              *)
(*                                                                         *)
(* A name (of a table or of a column) is the sequence of its               *)
(* '_'-separated parts: <<"t", "staging">> is t_staging, so that           *)
(* `${table}_staging` is computed and not looked up.                       *)
(*                                                                         *)
(* Every pending promise of the class is a task: the function it runs      *)
(* (fn), where its chain stands (pc), the promise that waits for it        *)
(* (parent) and how it settled (out, val).  One action is one callback of  *)
(* the source.  A promise settles once: a later resolve or reject of a     *)
(* settled promise changes nothing.                                        *)
(***************************************************************************)
EXTENDS Integers, Sequences, FiniteSets, TLC

VARIABLES db, disk, leased, tasks, pre, issued

vars == <<db, disk, leased, tasks, pre, issued>>

(* ------------------------------ bounds -------------------------------- *)

PoolSize == 4       \* connections the pool hands out before getConnection waits
Lanes == 2          \* promises one call can start at once
LaneWidth == 4      \* promises pending at once below one of them

(* ------------------------------ names --------------------------------- *)

NoName == <<>>
T == <<"t">>
A == <<"a">>
B == <<"b">>
Email == <<"email">>
First == <<"first">>
Last == <<"last">>
ZipCode == <<"zip", "code">>

\* _.camelCase of a header: the parts of zip_code become the one word
\* zipCode; a single lower-case word is left as it is.
CamelCase(header) ==
    CASE header = ZipCode -> <<"zipCode">>
      [] OTHER -> header

\* index.js 239 and 242: table + '_' + _.camelCase(header)
Prefixed(table, header) == table \o CamelCase(header)

\* index.js 509: 'merge_' + Math.random().toString(36).substring(7)
Suffixes == {"r1", "r2"}
MergeName(suffix) == <<"merge", suffix>>

Suffixed(table, part) == table \o <<part>>

StagingName(table) == Suffixed(table, "staging")

DropName(table) == Suffixed(table, "drop")

Tables == {T, StagingName(T), DropName(T)}

MergeTables == {A, B} \cup {MergeName(r) : r \in Suffixes}

(* ------------------------------ files --------------------------------- *)

NoPath == [dir |-> "", name |-> NoName, ext |-> ""]
PathT == [dir |-> "./test", name |-> T, ext |-> "csv"]
PathA == [dir |-> "./test", name |-> A, ext |-> "csv"]
PathGone == [dir |-> "./test", name |-> <<"gone">>, ext |-> "csv"]

PathB == [dir |-> "./test", name |-> B, ext |-> "csv"]
PathOut == [dir |-> "./test", name |-> <<"out">>, ext |-> "csv"]
PathNoDir == [dir |-> "./nodir", name |-> <<"out">>, ext |-> "csv"]

Paths == {PathT, PathA, PathB, PathGone, PathOut, PathNoDir}

\* path.parse(filepath).name
PathName(filepath) == filepath.name

\* The backend can write a file where the directory exists.
Writable(filepath) == filepath.dir = "./test"

NoFile == [ex |-> FALSE, hdr |-> <<>>, delim |-> ",", n |-> 0]

File(hdr, n) == [ex |-> TRUE, hdr |-> hdr, delim |-> ",", n |-> n]

DiskInit ==
    [p \in Paths |->
        CASE p = PathT -> File(<<Email, First, Last>>, 4)
          [] p = PathA -> File(<<Email, First, Last>>, 3)
          [] p = PathB -> File(<<Email, ZipCode>>, 2)
          [] OTHER -> NoFile]

(* ----------------------------- backend -------------------------------- *)

NoTable == [ex |-> FALSE, cols |-> <<>>, rows |-> <<>>, idx |-> {}]

Batch(src, n, part) == [src |-> src, n |-> n, part |-> part]

OldTable ==
    [ex |-> TRUE, cols |-> <<Email, First, Last>>,
     rows |-> <<Batch(<<"old">>, 2, FALSE)>>, idx |-> {}]

StaleStaging ==
    [ex |-> TRUE, cols |-> <<Email, First>>,
     rows |-> <<Batch(<<"stale">>, 1, FALSE)>>, idx |-> {}]

Range(seq) == {seq[i] : i \in DOMAIN seq}

Loading(tbl) == \E i \in DOMAIN tbl.rows : tbl.rows[i].part

RECURSIVE Rows(_)
Rows(rows) == IF rows = <<>> THEN 0 ELSE Head(rows).n + Rows(Tail(rows))

RECURSIVE Columns(_, _)
Columns(d, from) == IF from = <<>> THEN <<>> ELSE d[Head(from)].cols \o Columns(d, Tail(from))

RECURSIVE Fewest(_, _)
Fewest(d, from) ==
    IF Len(from) = 1 THEN Rows(d[Head(from)].rows)
    ELSE LET n == Rows(d[Head(from)].rows)
             m == Fewest(d, Tail(from))
         IN  IF n < m THEN n ELSE m

RECURSIVE Product(_, _)
Product(d, from) ==
    IF from = <<>> THEN 1 ELSE Rows(d[Head(from)].rows) * Product(d, Tail(from))

RECURSIVE Flat(_)
Flat(names) == IF names = <<>> THEN <<>> ELSE Head(names) \o Flat(Tail(names))

Ref(table, col) == [t |-> table, c |-> col]

NoSql ==
    [op |-> "none", t |-> NoName, t2 |-> NoName, path |-> NoPath, cols |-> <<>>,
     from |-> <<>>, on |-> <<>>]

ShowTablesLike(table) == [NoSql EXCEPT !.op = "SHOW TABLES LIKE", !.t = table]
MutDropTableIfExists(table) == ShowTablesLike(table)
DropTableIfExists(table) == [NoSql EXCEPT !.op = "DROP TABLE IF EXISTS", !.t = table]
DropTableStmt(table) == [NoSql EXCEPT !.op = "DROP TABLE", !.t = table]
MutCreateTableLike(table, like) == [NoSql EXCEPT !.op = "RENAME TABLE", !.t = like, !.t2 = table]
CreateTableLike(table, like) == [NoSql EXCEPT !.op = "CREATE TABLE LIKE", !.t = table, !.t2 = like]
CreateTable(table, cols) == [NoSql EXCEPT !.op = "CREATE TABLE", !.t = table, !.cols = cols]
RenameTable(from, to) == [NoSql EXCEPT !.op = "RENAME TABLE", !.t = from, !.t2 = to]
LoadData(filepath, table, cols) ==
    [NoSql EXCEPT !.op = "LOAD DATA", !.path = filepath, !.t = table, !.cols = cols]

CreateIndex(ind, table) == [NoSql EXCEPT !.op = "CREATE INDEX", !.t = table, !.cols = <<ind>>]
CreateTableSelect(table, from, on) ==
    [NoSql EXCEPT !.op = "CREATE TABLE SELECT", !.t = table, !.from = from, !.on = on]
SelectIntoOutfile(headers, table, filepath) ==
    [NoSql EXCEPT !.op = "SELECT INTO OUTFILE", !.t = table, !.cols = headers, !.path = filepath]
SelectColumns(table) == [NoSql EXCEPT !.op = "SELECT COLUMNS", !.t = table]

Here(d, table) == table \in DOMAIN d /\ d[table].ex

\* table.column names a column of one of the tables selected from.
Known(d, from, ref) ==
    /\ ref.t \in Range(from)
    /\ Here(d, ref.t)
    /\ ref.c \in Range(d[ref.t].cols)

\* Tables a statement names: the backend makes a statement wait while a bulk
\* load is writing one of them.
Named(sql) == ({sql.t, sql.t2} \cup Range(sql.from)) \ {NoName}

Busy(d, sql) == \E x \in Named(sql) : Here(d, x) /\ Loading(d[x])

Failed(d, k) == [ok |-> FALSE, db |-> d, disk |-> k, n |-> 0, h |-> <<>>]
Done(d, k, n) == [ok |-> TRUE, db |-> d, disk |-> k, n |-> n, h |-> <<>>]
Answer(d, k, h) == [ok |-> TRUE, db |-> d, disk |-> k, n |-> 1, h |-> h]

\* What the backend answers to one statement, and the tables it leaves.
Exec(d, k, sql) ==
    CASE sql.op = "SHOW TABLES LIKE" ->
            Done(d, k, IF Here(d, sql.t) THEN 1 ELSE 0)
      [] sql.op = "DROP TABLE IF EXISTS" ->
            IF sql.t \in DOMAIN d
            THEN Done([d EXCEPT ![sql.t] = NoTable], k, 0)
            ELSE Done(d, k, 0)
      [] sql.op = "DROP TABLE" ->
            IF Here(d, sql.t)
            THEN Done([d EXCEPT ![sql.t] = NoTable], k, 0)
            ELSE Failed(d, k)
      [] sql.op = "CREATE TABLE LIKE" ->
            IF sql.t \in DOMAIN d /\ ~Here(d, sql.t) /\ Here(d, sql.t2)
            THEN Done([d EXCEPT ![sql.t] = [d[sql.t2] EXCEPT !.rows = <<>>]], k, 0)
            ELSE Failed(d, k)
      [] sql.op = "CREATE TABLE" ->
            IF /\ sql.t \in DOMAIN d /\ ~Here(d, sql.t)
               /\ sql.cols # <<>>
               /\ Cardinality(Range(sql.cols)) = Len(sql.cols)
            THEN Done([d EXCEPT ![sql.t] =
                        [ex |-> TRUE, cols |-> sql.cols, rows |-> <<>>, idx |-> {}]], k, 0)
            ELSE Failed(d, k)
      [] sql.op = "RENAME TABLE" ->
            IF Here(d, sql.t) /\ sql.t2 \in DOMAIN d /\ ~Here(d, sql.t2)
            THEN Done([d EXCEPT ![sql.t2] = d[sql.t], ![sql.t] = NoTable], k, 0)
            ELSE Failed(d, k)
      [] sql.op = "LOAD DATA" ->
            IF /\ Here(d, sql.t)
               /\ sql.path \in DOMAIN k /\ k[sql.path].ex
               /\ Range(sql.cols) \subseteq Range(d[sql.t].cols)
            THEN Done([d EXCEPT ![sql.t].rows =
                        Append(@, Batch(PathName(sql.path), k[sql.path].n, TRUE))],
                 k, k[sql.path].n)
            ELSE Failed(d, k)
      [] sql.op = "CREATE INDEX" ->
            IF /\ Here(d, sql.t)
               /\ Range(sql.cols) \subseteq Range(d[sql.t].cols)
               /\ Range(sql.cols) \cap d[sql.t].idx = {}
            THEN Done([d EXCEPT ![sql.t].idx = @ \cup Range(sql.cols)], k, 0)
            ELSE Failed(d, k)
      [] sql.op = "CREATE TABLE SELECT" ->
            IF /\ sql.t \in DOMAIN d /\ ~Here(d, sql.t)
               /\ sql.from # <<>>
               /\ \A x \in Range(sql.from) : Here(d, x)
               /\ \A i \in DOMAIN sql.on :
                    Known(d, sql.from, sql.on[i].l) /\ Known(d, sql.from, sql.on[i].r)
               /\ Cardinality(Range(Columns(d, sql.from))) = Len(Columns(d, sql.from))
            THEN LET n == IF sql.on = <<>> THEN Product(d, sql.from) ELSE Fewest(d, sql.from)
                 IN  Done([d EXCEPT ![sql.t] =
                            [ex |-> TRUE, cols |-> Columns(d, sql.from),
                             rows |-> <<Batch(Flat(sql.from), n, FALSE)>>, idx |-> {}]], k, n)
            ELSE Failed(d, k)
      [] sql.op = "SELECT INTO OUTFILE" ->
            IF /\ Here(d, sql.t)
               /\ sql.cols # <<>>
               /\ Range(sql.cols) \subseteq Range(d[sql.t].cols)
               /\ sql.path \in DOMAIN k /\ ~k[sql.path].ex /\ Writable(sql.path)
            THEN Done(d, [k EXCEPT ![sql.path] = File(sql.cols, Rows(d[sql.t].rows))],
                      Rows(d[sql.t].rows) + 1)
            ELSE Failed(d, k)
      [] sql.op = "SELECT COLUMNS" ->
            Answer(d, k, IF Here(d, sql.t) THEN d[sql.t].cols ELSE <<>>)
      [] OTHER -> Failed(d, k)

\* The end of a bulk load: the rows the load was writing are all there.
Loaded(d, sql) ==
    [d EXCEPT ![sql.t].rows =
        [i \in DOMAIN @ |->
            IF @[i].part /\ @[i].src = PathName(sql.path)
            THEN [@[i] EXCEPT !.part = FALSE] ELSE @[i]]]

(* ------------------------------ tasks --------------------------------- *)

\* The caller's promise, and for each promise it starts at once a lane of
\* slots for that promise and the promises below it.
Slots == 1..(1 + Lanes * LaneWidth)
\* The promise the caller holds is in the first slot.
Root == CHOOSE s \in Slots : \A o \in Slots : s <= o
Orphan == 0 - 1

NoVal == [n |-> 0, t |-> NoName, h |-> <<>>]

\* An index parameter: null, a column name or an array of column names.
NoIndex == [truthy |-> FALSE, list |-> <<>>]
Index(list) == [truthy |-> TRUE, list |-> list]

\* A merge parameter: null or an object of table.column pairs.
NoMerge == [truthy |-> FALSE, pairs |-> <<>>]
Merge(pairs) == [truthy |-> TRUE, pairs |-> pairs]

NoTask ==
    [fn |-> "none", pc |-> "end", parent |-> 0, lane |-> 0, out |-> "pending",
     val |-> NoVal, kids |-> {}, table |-> NoName, path |-> NoPath, headers |-> <<>>,
     sql |-> NoSql, res |-> 0,
     index |-> NoIndex, prependHeaders |-> FALSE, overwrite |-> FALSE, delimiter |-> ",",
     cols |-> <<>>, names |-> <<>>,
     files |-> <<>>, merge |-> NoMerge, output |-> NoPath, tables |-> <<>>,
     mergeTable |-> NoName]

Task(fn, pc) == [NoTask EXCEPT !.fn = fn, !.pc = pc]

Free(ts) == {s \in Slots : ts[s].fn = "none"}

LaneOf(s) == (s + LaneWidth - 2) \div LaneWidth

FreeSlot(ts, lane) ==
    LET free == {s \in Free(ts) : LaneOf(s) = lane}
    IN  CHOOSE s \in free : \A s2 \in free : s <= s2

\* resolve(val) and reject() of the promise a task is: the first one settles it.
Resolved(task, val) ==
    IF task.out = "pending" THEN [task EXCEPT !.out = "resolved", !.val = val] ELSE task

Rejected(task) ==
    IF task.out = "pending" THEN [task EXCEPT !.out = "rejected"] ELSE task

At(task, pc) == [task EXCEPT !.pc = pc]

\* A task that has run to its end and that nobody waits for is gone.
Norm(ts) ==
    [s \in Slots |-> IF ts[s].pc = "end" /\ ts[s].parent = Orphan THEN NoTask ELSE ts[s]]

\* p starts the children, one after the other, and waits for their promises.
RECURSIVE Spawn(_, _, _, _)
Spawn(ts, p, children, i) ==
    IF i > Len(children) THEN ts
    ELSE LET lane == IF ts[p].lane = 0 THEN i ELSE ts[p].lane
             c == FreeSlot(ts, lane)
         IN  Spawn([ts EXCEPT ![p].kids = @ \cup {c},
                              ![c] = [children[i] EXCEPT !.parent = p, !.lane = lane]],
                   p, children, i + 1)

\* p calls child and waits for the promise it returns.
Call(ts, p, task, child) ==
    Spawn([ts EXCEPT ![p] = [task EXCEPT !.kids = {}]], p, <<child>>, 1)

\* async.each(items, iteratee, callback): every iteratee is started at once.
Each(ts, p, task, children) ==
    Spawn([ts EXCEPT ![p] = [task EXCEPT !.kids = {}]], p, children, 1)

\* p stops waiting: whatever its children still do is no longer heard.
Abandoned(ts, p, task) ==
    Norm([s \in Slots |->
            IF s = p THEN [task EXCEPT !.kids = {}]
            ELSE IF s \in ts[p].kids THEN [ts[s] EXCEPT !.parent = Orphan]
            ELSE ts[s]])

\* p's callback on c has run: c's result is consumed.
Consumed(ts, p, c, task) ==
    Norm([ts EXCEPT ![p] = [task EXCEPT !.kids = @ \ {c}], ![c].parent = Orphan])

Kid(s) == CHOOSE c \in tasks[s].kids : TRUE

\* async.each's callback for one child c of p: the first error ends the
\* wait with failed, the last success ends it with done, and any other
\* success goes on waiting.
Next1(ts, p, c, done, failed) ==
    IF ts[c].out = "rejected" THEN Abandoned(ts, p, failed)
    ELSE IF ts[p].kids = {c} THEN Consumed(ts, p, c, done)
    ELSE Consumed(ts, p, c, ts[p])

Waiting(s, fn, pc) ==
    /\ tasks[s].fn = fn
    /\ tasks[s].pc = pc
    /\ tasks[s].kids # {}
    /\ tasks[Kid(s)].out # "pending"

Running(s, fn, pc) ==
    /\ tasks[s].fn = fn
    /\ tasks[s].pc = pc

Log(sql, ok) == issued \cup {[sql |-> sql, ok |-> ok]}

(* ------------------------------ query --------------------------------- *)

QueryTask(sql) == [Task("query", "getConnection") EXCEPT !.sql = sql]

\* index.js 71-72: the pool gives a connection when it has one left.
query_getConnection(s) ==
    /\ Running(s, "query", "getConnection")
    /\ leased < PoolSize
    /\ leased' = leased + 1
    /\ tasks' = [tasks EXCEPT ![s] = At(@, "query")]
    /\ UNCHANGED <<db, disk, pre, issued>>

\* What query does with the connection once the backend has answered.
QueryRelease(n, ok) == IF ok THEN n - 1 ELSE n

\* index.js 73-79: the callback of db.query.
query_callback(s) ==
    /\ Running(s, "query", "query")
    /\ ~Busy(db, tasks[s].sql)
    /\ LET sql == tasks[s].sql
           r == Exec(db, disk, sql)
       IN  /\ db' = r.db
           /\ disk' = r.disk
           /\ issued' = Log(sql, r.ok)
           /\ IF r.ok /\ sql.op = "LOAD DATA"
              THEN /\ tasks' = [tasks EXCEPT ![s] = [At(@, "loading") EXCEPT !.res = r.n]]
                   /\ UNCHANGED leased
              ELSE /\ leased' = QueryRelease(leased, r.ok)
                   /\ tasks' = Norm([tasks EXCEPT ![s] =
                        IF r.ok
                        THEN Resolved(At(@, "end"), [NoVal EXCEPT !.n = r.n, !.h = r.h])
                        ELSE Rejected(At(@, "end"))])
    /\ UNCHANGED pre

\* The backend finishes the bulk load and db.query's callback runs.
query_loaded(s) ==
    /\ Running(s, "query", "loading")
    /\ db' = Loaded(db, tasks[s].sql)
    /\ leased' = QueryRelease(leased, TRUE)
    /\ tasks' = Norm([tasks EXCEPT ![s] =
            Resolved(At(@, "end"), [NoVal EXCEPT !.n = tasks[s].res])])
    /\ UNCHANGED <<disk, pre, issued>>

(* ---------------------------- tableExists ----------------------------- *)

TableExistsTask(table) == [Task("tableExists", "start") EXCEPT !.table = table]

\* index.js 92
tableExists_start(s) ==
    /\ Running(s, "tableExists", "start")
    /\ tasks' = Call(tasks, s, At(tasks[s], "results"),
                     QueryTask(ShowTablesLike(tasks[s].table)))
    /\ UNCHANGED <<db, disk, leased, pre, issued>>

\* index.js 95: the query has answered, with at least one row
MutFound(query) == query.out = "resolved"
Found(query) == query.out = "resolved" /\ query.val.n > 0

\* index.js 93-98
tableExists_results(s) ==
    /\ Waiting(s, "tableExists", "results")
    /\ LET c == Kid(s)
           found == Found(tasks[c])
       IN  tasks' = Consumed(tasks, s, c,
                IF found THEN Resolved(At(tasks[s], "end"), NoVal)
                         ELSE Rejected(At(tasks[s], "end")))
    /\ UNCHANGED <<db, disk, leased, pre, issued>>

(* ------------------------- createStagingTable ------------------------- *)

CreateStagingTableTask(table) == [Task("createStagingTable", "start") EXCEPT !.table = table]

\* index.js 199-201
createStagingTable_start(s) ==
    /\ Running(s, "createStagingTable", "start")
    /\ IF tasks[s].table = NoName
       THEN tasks' = Norm([tasks EXCEPT ![s] = Rejected(At(@, "end"))])
       ELSE tasks' = Call(tasks, s, At(tasks[s], "exists"), TableExistsTask(tasks[s].table))
    /\ UNCHANGED <<db, disk, leased, pre, issued>>

\* index.js 202-204 and 216-218
createStagingTable_exists(s) ==
    /\ Waiting(s, "createStagingTable", "exists")
    /\ LET c == Kid(s)
       IN  tasks' = Consumed(tasks, s, c,
                IF tasks[c].out = "resolved"
                THEN At(tasks[s], "getConnection")
                ELSE Rejected(At(tasks[s], "end")))
    /\ UNCHANGED <<db, disk, leased, pre, issued>>

\* index.js 204-205
createStagingTable_getConnection(s) ==
    /\ Running(s, "createStagingTable", "getConnection")
    /\ leased < PoolSize
    /\ leased' = leased + 1
    /\ tasks' = [tasks EXCEPT ![s] = At(@, "drop")]
    /\ UNCHANGED <<db, disk, pre, issued>>

\* index.js 206-207
createStagingTable_drop(s) ==
    /\ Running(s, "createStagingTable", "drop")
    /\ LET sql == DropTableIfExists(StagingName(tasks[s].table))
           r == Exec(db, disk, sql)
       IN  /\ ~Busy(db, sql)
           /\ db' = r.db
           /\ issued' = Log(sql, r.ok)
           /\ tasks' = Norm([tasks EXCEPT ![s] =
                    IF r.ok THEN At(@, "create") ELSE Rejected(At(@, "end"))])
    /\ UNCHANGED <<disk, leased, pre>>

\* index.js 208-211
createStagingTable_create(s) ==
    /\ Running(s, "createStagingTable", "create")
    /\ LET sql == CreateTableLike(StagingName(tasks[s].table), tasks[s].table)
           r == Exec(db, disk, sql)
       IN  /\ ~Busy(db, sql)
           /\ db' = r.db
           /\ issued' = Log(sql, r.ok)
           /\ tasks' = Norm([tasks EXCEPT ![s] =
                    IF r.ok
                    THEN Resolved(At(@, "end"), [NoVal EXCEPT !.t = StagingName(tasks[s].table)])
                    ELSE Rejected(At(@, "end"))])
    /\ UNCHANGED <<disk, leased, pre>>

(* ----------------------------- swapTables ----------------------------- *)

SwapTablesTask(table) == [Task("swapTables", "start") EXCEPT !.table = table]

\* index.js 304: the production table steps aside.
MutSwapRename(table) == DropTableIfExists(DropName(table))
SwapRename(table) == RenameTable(table, DropName(table))

\* index.js 306: the staging table takes the production name.
MutSwapRenameStaging(table) == RenameTable(DropName(table), table)
SwapRenameStaging(table) == RenameTable(StagingName(table), table)

\* index.js 318: with no production table, the staging table is renamed.
MutFallbackRename(table) == RenameTable(table, StagingName(table))
FallbackRename(table) == RenameTable(StagingName(table), table)

\* index.js 308: the old production table goes.
MutSwapDrop(table) == DropTableIfExists(StagingName(table))
SwapDrop(table) == DropTableStmt(DropName(table))

\* index.js 299
swapTables_start(s) ==
    /\ Running(s, "swapTables", "start")
    /\ tasks' = Call(tasks, s, At(tasks[s], "exists"), TableExistsTask(tasks[s].table))
    /\ UNCHANGED <<db, disk, leased, pre, issued>>

\* index.js 300-301 and 316-318
swapTables_exists(s) ==
    /\ Waiting(s, "swapTables", "exists")
    /\ LET c == Kid(s)
           ts == Consumed(tasks, s, c, tasks[s])
       IN  tasks' =
             IF tasks[c].out = "resolved"
             THEN [ts EXCEPT ![s] = At(@, "getConnection")]
             ELSE Call(ts, s, At(ts[s], "renamed"),
                       QueryTask(FallbackRename(tasks[s].table)))
    /\ UNCHANGED <<db, disk, leased, pre, issued>>

\* index.js 301-302
swapTables_getConnection(s) ==
    /\ Running(s, "swapTables", "getConnection")
    /\ leased < PoolSize
    /\ leased' = leased + 1
    /\ tasks' = [tasks EXCEPT ![s] = At(@, "rename")]
    /\ UNCHANGED <<db, disk, pre, issued>>

\* index.js 304-305
swapTables_rename(s) ==
    /\ Running(s, "swapTables", "rename")
    /\ LET sql == SwapRename(tasks[s].table)
           r == Exec(db, disk, sql)
       IN  /\ ~Busy(db, sql)
           /\ db' = r.db
           /\ issued' = Log(sql, r.ok)
           /\ tasks' = Norm([tasks EXCEPT ![s] =
                    IF r.ok THEN At(@, "rename_staging") ELSE Rejected(At(@, "end"))])
    /\ UNCHANGED <<disk, leased, pre>>

\* index.js 306-307
swapTables_rename_staging(s) ==
    /\ Running(s, "swapTables", "rename_staging")
    /\ LET sql == SwapRenameStaging(tasks[s].table)
           r == Exec(db, disk, sql)
       IN  /\ ~Busy(db, sql)
           /\ db' = r.db
           /\ issued' = Log(sql, r.ok)
           /\ tasks' = Norm([tasks EXCEPT ![s] =
                    IF r.ok THEN At(@, "drop") ELSE Rejected(At(@, "end"))])
    /\ UNCHANGED <<disk, leased, pre>>

\* index.js 308-311
swapTables_drop(s) ==
    /\ Running(s, "swapTables", "drop")
    /\ LET sql == SwapDrop(tasks[s].table)
           r == Exec(db, disk, sql)
       IN  /\ ~Busy(db, sql)
           /\ db' = r.db
           /\ issued' = Log(sql, r.ok)
           /\ tasks' = Norm([tasks EXCEPT ![s] =
                    IF r.ok THEN Resolved(At(@, "end"), NoVal) ELSE Rejected(At(@, "end"))])
    /\ UNCHANGED <<disk, leased, pre>>

\* index.js 319-321
swapTables_renamed(s) ==
    /\ Waiting(s, "swapTables", "renamed")
    /\ LET c == Kid(s)
       IN  tasks' = Consumed(tasks, s, c,
                IF tasks[c].out = "resolved"
                THEN Resolved(At(tasks[s], "end"), NoVal)
                ELSE Rejected(At(tasks[s], "end")))
    /\ UNCHANGED <<db, disk, leased, pre, issued>>

(* -------------------------- importFileToTable ------------------------- *)

ImportFileToTableTask(filepath, table, headers) ==
    [Task("importFileToTable", "start") EXCEPT
        !.path = filepath, !.table = table, !.headers = headers]

\* index.js 362: what importFileToTable resolves with.
MutAffectedRows(task) == NoVal
AffectedRows(task) == [NoVal EXCEPT !.n = task.res]

\* index.js 354: the table the file is loaded into.
MutLoadStatement(task) == LoadData(task.path, task.table, task.headers)
LoadStatement(task) == LoadData(task.path, StagingName(task.table), task.headers)

\* index.js 344-347
importFileToTable_start(s) ==
    /\ Running(s, "importFileToTable", "start")
    /\ IF tasks[s].path = NoPath
       THEN tasks' = Norm([tasks EXCEPT ![s] = Rejected(At(@, "end"))])
       ELSE LET table == IF tasks[s].table = NoName
                         THEN PathName(tasks[s].path) ELSE tasks[s].table
            IN  tasks' = Call(tasks, s, [At(tasks[s], "exists") EXCEPT !.table = table],
                              TableExistsTask(table))
    /\ UNCHANGED <<db, disk, leased, pre, issued>>

\* index.js 348-352: the rejection handler rejects the outer promise and
\* returns nothing, so the promise of this then() is fulfilled and the chain
\* goes on to the next then() (353-355).
importFileToTable_exists(s) ==
    /\ Waiting(s, "importFileToTable", "exists")
    /\ LET c == Kid(s)
           ts == Consumed(tasks, s, c, tasks[s])
       IN  tasks' =
             IF tasks[c].out = "resolved"
             THEN Call(ts, s, At(ts[s], "staged"), CreateStagingTableTask(tasks[s].table))
             ELSE Call(ts, s, Rejected(At(ts[s], "loaded")), QueryTask(LoadStatement(tasks[s])))
    /\ UNCHANGED <<db, disk, leased, pre, issued>>

\* index.js 353-355, and 367 when createStagingTable rejected
importFileToTable_staged(s) ==
    /\ Waiting(s, "importFileToTable", "staged")
    /\ LET c == Kid(s)
           ts == Consumed(tasks, s, c, tasks[s])
       IN  tasks' =
             IF tasks[c].out = "resolved"
             THEN Call(ts, s, At(ts[s], "loaded"), QueryTask(LoadStatement(tasks[s])))
             ELSE Norm([ts EXCEPT ![s] = Rejected(At(@, "end"))])
    /\ UNCHANGED <<db, disk, leased, pre, issued>>

\* index.js 356: the then() after the load runs when the load resolved.
MutLoadSucceeded(query) == TRUE
LoadSucceeded(query) == query.out = "resolved"

\* index.js 356-359, and 367 when the load rejected
importFileToTable_loaded(s) ==
    /\ Waiting(s, "importFileToTable", "loaded")
    /\ LET c == Kid(s)
           ts == Consumed(tasks, s, c, [tasks[s] EXCEPT !.res = tasks[c].val.n])
       IN  tasks' =
             IF LoadSucceeded(tasks[c])
             THEN Call(ts, s, At(ts[s], "swapped"), SwapTablesTask(tasks[s].table))
             ELSE Norm([ts EXCEPT ![s] = Rejected(At(@, "end"))])
    /\ UNCHANGED <<db, disk, leased, pre, issued>>

\* index.js 360-367
importFileToTable_swapped(s) ==
    /\ Waiting(s, "importFileToTable", "swapped")
    /\ LET c == Kid(s)
       IN  tasks' = Consumed(tasks, s, c,
                IF tasks[c].out = "resolved"
                THEN Resolved(At(tasks[s], "end"), AffectedRows(tasks[s]))
                ELSE Rejected(At(tasks[s], "end")))
    /\ UNCHANGED <<db, disk, leased, pre, issued>>

(* --------------------------- getFileHeaders --------------------------- *)

GetFileHeadersTask(filepath, delimiter) ==
    [Task("getFileHeaders", "start") EXCEPT !.path = filepath, !.delimiter = delimiter]

\* index.js 163: line.split(delimiter); a line that does not hold the
\* delimiter is one field.
Split(file, delimiter) == IF delimiter = file.delim THEN file.hdr ELSE <<Flat(file.hdr)>>

\* index.js 159-160
getFileHeaders_start(s) ==
    /\ Running(s, "getFileHeaders", "start")
    /\ tasks' = Norm([tasks EXCEPT ![s] =
            IF tasks[s].path = NoPath THEN Rejected(At(@, "end")) ELSE At(@, "firstline")])
    /\ UNCHANGED <<db, disk, leased, pre, issued>>

\* index.js 161-164
getFileHeaders_firstline(s) ==
    /\ Running(s, "getFileHeaders", "firstline")
    /\ LET filepath == tasks[s].path
       IN  tasks' = Norm([tasks EXCEPT ![s] =
                IF filepath \in DOMAIN disk /\ disk[filepath].ex
                THEN Resolved(At(@, "end"),
                              [NoVal EXCEPT !.h = Split(disk[filepath], tasks[s].delimiter)])
                ELSE Rejected(At(@, "end"))])
    /\ UNCHANGED <<db, disk, leased, pre, issued>>

(* ------------------------------ addIndex ------------------------------ *)

AddIndexTask(table, index) ==
    [Task("addIndex", "start") EXCEPT !.table = table, !.index = index]

\* index.js 138, for every column of the list
IndexQueries(table, list) == [i \in DOMAIN list |-> QueryTask(CreateIndex(list[i], table))]

\* index.js 134-138
addIndex_start(s) ==
    /\ Running(s, "addIndex", "start")
    /\ tasks' =
         IF tasks[s].table = NoName \/ ~tasks[s].index.truthy
         THEN Norm([tasks EXCEPT ![s] = Rejected(At(@, "end"))])
         ELSE IF tasks[s].index.list = <<>>
         THEN Norm([tasks EXCEPT ![s] = Resolved(At(@, "end"), NoVal)])
         ELSE Each(tasks, s, At(tasks[s], "each"),
                   IndexQueries(tasks[s].table, tasks[s].index.list))
    /\ UNCHANGED <<db, disk, leased, pre, issued>>

\* index.js 139-145
addIndex_each(s) ==
    /\ Running(s, "addIndex", "each")
    /\ \E c \in tasks[s].kids :
        /\ tasks[c].out # "pending"
        /\ tasks' = Next1(tasks, s, c, Resolved(At(tasks[s], "end"), NoVal),
                          Rejected(At(tasks[s], "end")))
    /\ UNCHANGED <<db, disk, leased, pre, issued>>

(* --------------------------- createNewTable --------------------------- *)

CreateNewTableTask(table, headers, index, prependHeaders, overwrite) ==
    [Task("createNewTable", "start") EXCEPT
        !.table = table, !.headers = headers, !.index = index,
        !.prependHeaders = prependHeaders, !.overwrite = overwrite]

\* index.js 42-46
arrayContainsArray(superset, subset) == \A v \in Range(subset) : v \in Range(superset)

\* index.js 239
IndexColumns(table, index, prependHeaders) ==
    IF prependHeaders /\ index.truthy
    THEN Index([i \in DOMAIN index.list |-> Prefixed(table, index.list[i])])
    ELSE index

\* index.js 241-244
HeaderColumns(table, headers, prependHeaders) ==
    [i \in DOMAIN headers |->
        IF prependHeaders THEN Prefixed(table, headers[i]) ELSE headers[i]]

\* index.js 236-244 and 276
createNewTable_start(s) ==
    /\ Running(s, "createNewTable", "start")
    /\ LET task == tasks[s]
       IN  tasks' =
             IF task.table = NoName
             THEN Norm([tasks EXCEPT ![s] = Rejected(At(@, "end"))])
             ELSE IF task.index.truthy /\ arrayContainsArray(task.index.list, task.headers)
             THEN Norm([tasks EXCEPT ![s] = Rejected(At(@, "end"))])
             ELSE Call(tasks, s,
                       [At(task, "exists") EXCEPT
                          !.index = IndexColumns(task.table, task.index, task.prependHeaders),
                          !.cols = HeaderColumns(task.table, task.headers, task.prependHeaders)],
                       TableExistsTask(task.table))
    /\ UNCHANGED <<db, disk, leased, pre, issued>>

\* index.js 267: an existing table is dropped only when overwrite is set
MutOverwrite(task) == TRUE
Overwrite(task) == task.overwrite

\* index.js 277: drop (264-274) when the table exists, create (248-250) when not
createNewTable_exists(s) ==
    /\ Waiting(s, "createNewTable", "exists")
    /\ LET c == Kid(s)
           ts == Consumed(tasks, s, c, tasks[s])
       IN  tasks' =
             IF tasks[c].out = "resolved"
             THEN IF ~Overwrite(tasks[s])
                  THEN Norm([ts EXCEPT ![s] = Rejected(At(@, "end"))])
                  ELSE Call(ts, s, At(ts[s], "dropped"),
                            QueryTask(DropTableIfExists(tasks[s].table)))
             ELSE Call(ts, s, At(ts[s], "created"),
                       QueryTask(CreateTable(tasks[s].table, tasks[s].cols)))
    /\ UNCHANGED <<db, disk, leased, pre, issued>>

\* index.js 269-272
createNewTable_dropped(s) ==
    /\ Waiting(s, "createNewTable", "dropped")
    /\ LET c == Kid(s)
           ts == Consumed(tasks, s, c, tasks[s])
       IN  tasks' =
             IF tasks[c].out = "resolved"
             THEN Call(ts, s, At(ts[s], "created"),
                       QueryTask(CreateTable(tasks[s].table, tasks[s].cols)))
             ELSE Norm([ts EXCEPT ![s] = Rejected(At(@, "end"))])
    /\ UNCHANGED <<db, disk, leased, pre, issued>>

\* index.js 251-254 and 258-260
createNewTable_created(s) ==
    /\ Waiting(s, "createNewTable", "created")
    /\ LET c == Kid(s)
           ts == Consumed(tasks, s, c, tasks[s])
       IN  tasks' =
             IF tasks[c].out = "rejected"
             THEN Norm([ts EXCEPT ![s] = Rejected(At(@, "end"))])
             ELSE IF ~tasks[s].index.truthy
             THEN Norm([ts EXCEPT ![s] =
                        Resolved(At(@, "end"), [NoVal EXCEPT !.t = tasks[s].table])])
             ELSE Call(ts, s, At(ts[s], "indexed"),
                       AddIndexTask(tasks[s].table, tasks[s].index))
    /\ UNCHANGED <<db, disk, leased, pre, issued>>

\* index.js 255-260
createNewTable_indexed(s) ==
    /\ Waiting(s, "createNewTable", "indexed")
    /\ LET c == Kid(s)
       IN  tasks' = Consumed(tasks, s, c,
                IF tasks[c].out = "resolved"
                THEN Resolved(At(tasks[s], "end"), [NoVal EXCEPT !.t = tasks[s].table])
                ELSE Rejected(At(tasks[s], "end")))
    /\ UNCHANGED <<db, disk, leased, pre, issued>>

(* ---------------------- importFileAndCreateTable ---------------------- *)

\* A file descriptor as importFileAndCreateTable destructures it (382).
ImportFileAndCreateTableTask(file) ==
    [Task("importFileAndCreateTable", "start") EXCEPT
        !.path = file.filepath, !.table = file.table, !.overwrite = file.overwrite,
        !.index = file.index, !.headers = file.headers,
        !.prependHeaders = file.prependHeaders,
        !.delimiter = IF file.delimiter = "" THEN "," ELSE file.delimiter]

\* index.js 396
NewTableOf(task, headers) ==
    CreateNewTableTask(task.table, headers, task.index, task.prependHeaders, task.overwrite)

\* index.js 400: the columns named are the headers parameter of the call
MutLoadIntoNewTable(task) == LoadData(task.path, StagingName(task.table), task.headers)
LoadIntoNewTable(task) == LoadData(task.path, task.table, task.headers)

\* index.js 387: fs.existsSync(filepath)
MutExistsSync(k, filepath) == TRUE
existsSync(k, filepath) == filepath \in DOMAIN k /\ k[filepath].ex

\* index.js 386-392
importFileAndCreateTable_start(s) ==
    /\ Running(s, "importFileAndCreateTable", "start")
    /\ LET task == tasks[s]
           table == IF task.table = NoName THEN PathName(task.path) ELSE task.table
           named == [At(task, "headers") EXCEPT !.table = table]
       IN  tasks' =
             IF task.path = NoPath \/ ~existsSync(disk, task.path)
             THEN Norm([tasks EXCEPT ![s] = Rejected(At(@, "end"))])
             ELSE IF task.headers # <<>>
             THEN Call(tasks, s, At(named, "created"), NewTableOf(named, task.headers))
             ELSE Call(tasks, s, named, GetFileHeadersTask(task.path, task.delimiter))
    /\ UNCHANGED <<db, disk, leased, pre, issued>>

\* index.js 394-397
importFileAndCreateTable_headers(s) ==
    /\ Waiting(s, "importFileAndCreateTable", "headers")
    /\ LET c == Kid(s)
           ts == Consumed(tasks, s, c, tasks[s])
       IN  tasks' =
             IF tasks[c].out = "resolved"
             THEN Call(ts, s, At(ts[s], "created"), NewTableOf(tasks[s], tasks[c].val.h))
             ELSE Norm([ts EXCEPT ![s] = Rejected(At(@, "end"))])
    /\ UNCHANGED <<db, disk, leased, pre, issued>>

\* index.js 398-401
importFileAndCreateTable_created(s) ==
    /\ Waiting(s, "importFileAndCreateTable", "created")
    /\ LET c == Kid(s)
           ts == Consumed(tasks, s, c, tasks[s])
       IN  tasks' =
             IF tasks[c].out = "resolved"
             THEN Call(ts, s, At(ts[s], "loaded"), QueryTask(LoadIntoNewTable(tasks[s])))
             ELSE Norm([ts EXCEPT ![s] = Rejected(At(@, "end"))])
    /\ UNCHANGED <<db, disk, leased, pre, issued>>

\* index.js 402-407
importFileAndCreateTable_loaded(s) ==
    /\ Waiting(s, "importFileAndCreateTable", "loaded")
    /\ LET c == Kid(s)
       IN  tasks' = Consumed(tasks, s, c,
                IF tasks[c].out = "resolved"
                THEN Resolved(At(tasks[s], "end"), [NoVal EXCEPT !.n = tasks[c].val.n])
                ELSE Rejected(At(tasks[s], "end")))
    /\ UNCHANGED <<db, disk, leased, pre, issued>>

(* --------------------------- getTableHeaders -------------------------- *)

GetTableHeadersTask(table) == [Task("getTableHeaders", "start") EXCEPT !.table = table]

\* index.js 176
getTableHeaders_start(s) ==
    /\ Running(s, "getTableHeaders", "start")
    /\ tasks' = Call(tasks, s, At(tasks[s], "response"),
                     QueryTask(SelectColumns(tasks[s].table)))
    /\ UNCHANGED <<db, disk, leased, pre, issued>>

\* index.js 177-183: splitting the NULL of a table without columns throws
getTableHeaders_response(s) ==
    /\ Waiting(s, "getTableHeaders", "response")
    /\ LET c == Kid(s)
       IN  tasks' = Consumed(tasks, s, c,
                IF tasks[c].out = "resolved" /\ tasks[c].val.h # <<>>
                THEN Resolved(At(tasks[s], "end"), [NoVal EXCEPT !.h = tasks[c].val.h])
                ELSE Rejected(At(tasks[s], "end")))
    /\ UNCHANGED <<db, disk, leased, pre, issued>>

(* ------------------------- exportFileFromTable ------------------------ *)

ExportFileFromTableTask(filepath, table, headers) ==
    [Task("exportFileFromTable", "start") EXCEPT
        !.path = filepath, !.table = table, !.headers = headers]

\* index.js 445-447
MutExportStatement(task, headers) == SelectIntoOutfile(task.headers, task.table, task.path)
ExportStatement(task, headers) == SelectIntoOutfile(headers, task.table, task.path)

\* index.js 426-429
exportFileFromTable_start(s) ==
    /\ Running(s, "exportFileFromTable", "start")
    /\ IF tasks[s].path = NoPath
       THEN tasks' = Norm([tasks EXCEPT ![s] = Rejected(At(@, "end"))])
       ELSE LET table == IF tasks[s].table = NoName
                         THEN PathName(tasks[s].path) ELSE tasks[s].table
            IN  tasks' = Call(tasks, s, [At(tasks[s], "exists") EXCEPT !.table = table],
                              TableExistsTask(table))
    /\ UNCHANGED <<db, disk, leased, pre, issued>>

\* index.js 439-442: the headers of the call, or those of the table
HeadersThen(ts, s) ==
    IF ts[s].headers # <<>>
    THEN Call(ts, s, At(ts[s], "exported"), QueryTask(ExportStatement(ts[s], ts[s].headers)))
    ELSE Call(ts, s, At(ts[s], "headers"), GetTableHeadersTask(ts[s].table))

\* index.js 430-438: the rejection handler rejects the outer promise and
\* returns nothing, so the chain goes on to 439 without the unlink.
exportFileFromTable_exists(s) ==
    /\ Waiting(s, "exportFileFromTable", "exists")
    /\ LET c == Kid(s)
           ts == Consumed(tasks, s, c, tasks[s])
       IN  tasks' =
             IF tasks[c].out = "resolved"
             THEN [ts EXCEPT ![s] = At(@, "unlink")]
             ELSE HeadersThen([ts EXCEPT ![s] = Rejected(@)], s)
    /\ UNCHANGED <<db, disk, leased, pre, issued>>

\* index.js 432-434 and 439-442
exportFileFromTable_unlink(s) ==
    /\ Running(s, "exportFileFromTable", "unlink")
    /\ disk' = IF tasks[s].path \in DOMAIN disk
               THEN [disk EXCEPT ![tasks[s].path] = NoFile] ELSE disk
    /\ tasks' = HeadersThen(tasks, s)
    /\ UNCHANGED <<db, leased, pre, issued>>

\* index.js 443-449
exportFileFromTable_headers(s) ==
    /\ Waiting(s, "exportFileFromTable", "headers")
    /\ LET c == Kid(s)
           ts == Consumed(tasks, s, c, tasks[s])
       IN  tasks' =
             IF tasks[c].out = "resolved"
             THEN Call(ts, s, At(ts[s], "exported"),
                       QueryTask(ExportStatement(tasks[s], tasks[c].val.h)))
             ELSE Norm([ts EXCEPT ![s] = Rejected(At(@, "end"))])
    /\ UNCHANGED <<db, disk, leased, pre, issued>>

\* index.js 450-453
exportFileFromTable_exported(s) ==
    /\ Waiting(s, "exportFileFromTable", "exported")
    /\ LET c == Kid(s)
       IN  tasks' = Consumed(tasks, s, c,
                IF tasks[c].out = "resolved"
                THEN Resolved(At(tasks[s], "end"), [NoVal EXCEPT !.n = tasks[c].val.n])
                ELSE Rejected(At(tasks[s], "end")))
    /\ UNCHANGED <<db, disk, leased, pre, issued>>

(* ------------------------------ dropTable ----------------------------- *)

DropTableTask(names) == [Task("dropTable", "start") EXCEPT !.names = names]

\* index.js 114, for every table of the list
MutDropQueries(names) == [i \in DOMAIN names |-> QueryTask(DropTableStmt(names[i]))]
DropQueries(names) == [i \in DOMAIN names |-> QueryTask(DropTableIfExists(names[i]))]

\* index.js 111-114
dropTable_start(s) ==
    /\ Running(s, "dropTable", "start")
    /\ tasks' =
         IF tasks[s].names = <<>>
         THEN Norm([tasks EXCEPT ![s] = Rejected(At(@, "end"))])
         ELSE Each(tasks, s, At(tasks[s], "each"), DropQueries(tasks[s].names))
    /\ UNCHANGED <<db, disk, leased, pre, issued>>

\* index.js 115-121
dropTable_each(s) ==
    /\ Running(s, "dropTable", "each")
    /\ \E c \in tasks[s].kids :
        /\ tasks[c].out # "pending"
        /\ tasks' = Next1(tasks, s, c, Resolved(At(tasks[s], "end"), NoVal),
                          Rejected(At(tasks[s], "end")))
    /\ UNCHANGED <<db, disk, leased, pre, issued>>

(* ----------------------------- mergeFiles ----------------------------- *)

\* A file descriptor of mergeFiles: a missing table is NoName, a missing
\* index NoIndex, a missing filepath NoPath, missing headers <<>> and a
\* missing delimiter "".
Descriptor(filepath, table, index) ==
    [filepath |-> filepath, table |-> table, index |-> index, headers |-> <<>>,
     delimiter |-> "", overwrite |-> FALSE, prependHeaders |-> FALSE]

MergeFilesTask(files, merge, output) ==
    [Task("mergeFiles", "start") EXCEPT !.files = files, !.merge = merge, !.output = output]

\* index.js 477-486: the loop over the descriptors.  A descriptor without
\* filepath or index rejects the promise and is left as it is, and the loop
\* goes on; path.parse(file) of 482 throws, which ends the whole executor.
RECURSIVE Checked(_, _)
Checked(files, acc) ==
    IF files = <<>> THEN acc
    ELSE LET file == Head(files)
         IN  IF file.filepath = NoPath \/ ~file.index.truthy
             THEN Checked(Tail(files),
                          [acc EXCEPT !.rejected = TRUE, !.files = Append(@, file)])
             ELSE IF file.table = NoName
             THEN [acc EXCEPT !.threw = TRUE]
             ELSE Checked(Tail(files),
                          [acc EXCEPT
                             !.files = Append(@, [file EXCEPT
                                  !.delimiter = IF @ = "" THEN "," ELSE @,
                                  !.prependHeaders = TRUE]),
                             !.tables = Append(@, file.table)])

Unchecked == [files |-> <<>>, tables |-> <<>>, rejected |-> FALSE, threw |-> FALSE]

\* index.js 493, for every descriptor
Imports(files) == [i \in DOMAIN files |-> ImportFileAndCreateTableTask(files[i])]

\* index.js 511-516
MutJoinStatement(mergeTable, tables, merge) == CreateTableSelect(mergeTable, tables, <<>>)
JoinStatement(mergeTable, tables, merge) == CreateTableSelect(mergeTable, tables, merge.pairs)

\* index.js 537
MutTablesOfMerge(mergeTable, tables) == tables
TablesOfMerge(mergeTable, tables) == <<mergeTable>> \o tables

\* index.js 469-493 and 545
mergeFiles_start(s) ==
    /\ Running(s, "mergeFiles", "start")
    /\ LET task == tasks[s]
           chk == Checked(task.files, Unchecked)
           kept == [At(task, "imported") EXCEPT !.files = chk.files, !.tables = chk.tables]
       IN  tasks' =
             IF task.files = <<>> \/ ~task.merge.truthy \/ task.output = NoPath \/ chk.threw
             THEN Norm([tasks EXCEPT ![s] = Rejected(At(@, "end"))])
             ELSE Each(tasks, s, IF chk.rejected THEN Rejected(kept) ELSE kept,
                       Imports(chk.files))
    /\ UNCHANGED <<db, disk, leased, pre, issued>>

\* index.js 494-501, then 508-520 once every import has resolved, or 550
mergeFiles_imported(s) ==
    /\ Running(s, "mergeFiles", "imported")
    /\ \E c \in tasks[s].kids, r \in Suffixes :
        /\ tasks[c].out # "pending"
        /\ LET ts == Next1(tasks, s, c, At(tasks[s], "join"), Rejected(At(tasks[s], "end")))
           IN  tasks' =
                 IF ts[s].pc = "join"
                 THEN Call(ts, s, [At(ts[s], "joined") EXCEPT !.mergeTable = MergeName(r)],
                           QueryTask(JoinStatement(MergeName(r), ts[s].tables, ts[s].merge)))
                 ELSE ts
    /\ UNCHANGED <<db, disk, leased, pre, issued>>

\* index.js 521-524 and 529-531, or 550
mergeFiles_joined(s) ==
    /\ Waiting(s, "mergeFiles", "joined")
    /\ LET c == Kid(s)
           ts == Consumed(tasks, s, c, tasks[s])
       IN  tasks' =
             IF tasks[c].out = "resolved"
             THEN Call(ts, s, At(ts[s], "exported"),
                       ExportFileFromTableTask(tasks[s].output, tasks[s].mergeTable, <<>>))
             ELSE Norm([ts EXCEPT ![s] = Rejected(At(@, "end"))])
    /\ UNCHANGED <<db, disk, leased, pre, issued>>

\* index.js 534-537, or 550
mergeFiles_exported(s) ==
    /\ Waiting(s, "mergeFiles", "exported")
    /\ LET c == Kid(s)
           ts == Consumed(tasks, s, c, [tasks[s] EXCEPT !.res = tasks[c].val.n])
       IN  tasks' =
             IF tasks[c].out = "resolved"
             THEN Call(ts, s, At(ts[s], "dropped"),
                       DropTableTask(TablesOfMerge(tasks[s].mergeTable, tasks[s].tables)))
             ELSE Norm([ts EXCEPT ![s] = Rejected(At(@, "end"))])
    /\ UNCHANGED <<db, disk, leased, pre, issued>>

\* index.js 539: resolve(rowsExported)
MutMergeResult(task) == NoVal
MergeResult(task) == [NoVal EXCEPT !.n = task.res]

\* index.js 538-540 and 549-550
mergeFiles_dropped(s) ==
    /\ Waiting(s, "mergeFiles", "dropped")
    /\ LET c == Kid(s)
       IN  tasks' = Consumed(tasks, s, c,
                IF tasks[c].out = "resolved"
                THEN Resolved(At(tasks[s], "end"), MergeResult(tasks[s]))
                ELSE Rejected(At(tasks[s], "end")))
    /\ UNCHANGED <<db, disk, leased, pre, issued>>

(* ------------------------------ callers ------------------------------- *)

\* Nothing the last call started is still running.
Quiet == \A s \in Slots : tasks[s].pc = "end"

Commands ==
    {CreateTable(T, <<Email, First, Last>>),
     CreateTable(StagingName(T), <<Email, First>>),
     DropTableIfExists(T),
     DropTableIfExists(StagingName(T)),
     DropTableIfExists(DropName(T)),
     RenameTable(StagingName(T), T)}

Calls ==
    {QueryTask(sql) : sql \in Commands}
    \cup {CreateStagingTableTask(T), SwapTablesTask(T)}
    \cup {ImportFileToTableTask(p, t, <<>>) : p \in {PathT, PathA, PathGone}, t \in {NoName, T}}

\* The program calls one method of the class, once the call before it and
\* everything that call started has finished.
Invoke(task) ==
    /\ Quiet
    /\ tasks' = [s \in Slots |-> IF s = Root THEN task ELSE NoTask]
    /\ pre' = [db |-> db, disk |-> disk, leased |-> leased]
    /\ issued' = {}
    /\ UNCHANGED <<db, disk, leased>>

Init ==
    /\ db \in {[x \in Tables |->
                  CASE x = T -> t
                    [] x = StagingName(T) -> st
                    [] OTHER -> NoTable] :
               t \in {NoTable, OldTable}, st \in {NoTable, StaleStaging}}
    /\ disk = DiskInit
    /\ leased = 0
    /\ tasks = [s \in Slots |-> NoTask]
    /\ pre = [db |-> db, disk |-> disk, leased |-> leased]
    /\ issued = {}

Next ==
    \/ \E task \in Calls : Invoke(task)
    \/ \E s \in Slots :
        \/ query_getConnection(s)
        \/ query_callback(s)
        \/ query_loaded(s)
        \/ tableExists_start(s)
        \/ tableExists_results(s)
        \/ createStagingTable_start(s)
        \/ createStagingTable_exists(s)
        \/ createStagingTable_getConnection(s)
        \/ createStagingTable_drop(s)
        \/ createStagingTable_create(s)
        \/ swapTables_start(s)
        \/ swapTables_exists(s)
        \/ swapTables_getConnection(s)
        \/ swapTables_rename(s)
        \/ swapTables_rename_staging(s)
        \/ swapTables_drop(s)
        \/ swapTables_renamed(s)
        \/ importFileToTable_start(s)
        \/ importFileToTable_exists(s)
        \/ importFileToTable_staged(s)
        \/ importFileToTable_loaded(s)
        \/ importFileToTable_swapped(s)

Spec == Init /\ [][Next]_vars

(* --------------------------- merging callers -------------------------- *)

FileA == Descriptor(PathA, A, Index(<<Email>>))
FileB == Descriptor(PathB, B, Index(<<Email>>))

OnEmail == Merge(<<[l |-> Ref(A, Prefixed(A, Email)), r |-> Ref(B, Prefixed(B, Email))]>>)
OnNothing == Merge(<<>>)
OnUnknown == Merge(<<[l |-> Ref(A, Email), r |-> Ref(B, Email)]>>)

MergeCalls ==
    {MergeFilesTask(<<FileA, FileB>>, m, o) :
        m \in {OnEmail, OnNothing, OnUnknown, NoMerge}, o \in {PathOut, PathNoDir}}
    \cup {MergeFilesTask(<<FileA, file>>, OnEmail, PathOut) :
            file \in {[FileB EXCEPT !.filepath = PathGone],
                      [FileB EXCEPT !.filepath = NoPath],
                      [FileB EXCEPT !.index = NoIndex],
                      [FileB EXCEPT !.table = NoName],
                      [FileB EXCEPT !.overwrite = TRUE],
                      [FileB EXCEPT !.headers = <<Email>>]}}
    \cup {MergeFilesTask(<<>>, OnEmail, PathOut), MergeFilesTask(<<FileA, FileB>>, OnEmail, NoPath)}

InitMerge ==
    /\ db = [x \in MergeTables |-> NoTable]
    /\ disk = DiskInit
    /\ leased = 0
    /\ tasks = [s \in Slots |-> NoTask]
    /\ pre = [db |-> db, disk |-> disk, leased |-> leased]
    /\ issued = {}

NextMerge ==
    \/ \E task \in MergeCalls : Invoke(task)
    \/ \E s \in Slots :
        \/ query_getConnection(s)
        \/ query_callback(s)
        \/ query_loaded(s)
        \/ tableExists_start(s)
        \/ tableExists_results(s)
        \/ getFileHeaders_start(s)
        \/ getFileHeaders_firstline(s)
        \/ addIndex_start(s)
        \/ addIndex_each(s)
        \/ createNewTable_start(s)
        \/ createNewTable_exists(s)
        \/ createNewTable_dropped(s)
        \/ createNewTable_created(s)
        \/ createNewTable_indexed(s)
        \/ importFileAndCreateTable_start(s)
        \/ importFileAndCreateTable_headers(s)
        \/ importFileAndCreateTable_created(s)
        \/ importFileAndCreateTable_loaded(s)
        \/ getTableHeaders_start(s)
        \/ getTableHeaders_response(s)
        \/ exportFileFromTable_start(s)
        \/ exportFileFromTable_exists(s)
        \/ exportFileFromTable_unlink(s)
        \/ exportFileFromTable_headers(s)
        \/ exportFileFromTable_exported(s)
        \/ dropTable_start(s)
        \/ dropTable_each(s)
        \/ mergeFiles_start(s)
        \/ mergeFiles_imported(s)
        \/ mergeFiles_joined(s)
        \/ mergeFiles_exported(s)
        \/ mergeFiles_dropped(s)

SpecMerge == InitMerge /\ [][NextMerge]_vars

(* ----------------------- table-creating callers ----------------------- *)

CreateCalls ==
    {CreateNewTableTask(T, headers, index, prependHeaders, overwrite) :
        headers \in {<<>>, <<Email>>, <<Email, First>>, <<Email, First, Last>>},
        index \in {NoIndex, Index(<<Email>>), Index(<<ZipCode>>)},
        prependHeaders \in BOOLEAN,
        overwrite \in BOOLEAN}

InitCreate ==
    /\ db \in {[x \in Tables |-> IF x = T THEN t ELSE NoTable] : t \in {NoTable, OldTable}}
    /\ disk = DiskInit
    /\ leased = 0
    /\ tasks = [s \in Slots |-> NoTask]
    /\ pre = [db |-> db, disk |-> disk, leased |-> leased]
    /\ issued = {}

NextCreate ==
    \/ \E task \in CreateCalls : Invoke(task)
    \/ \E s \in Slots :
        \/ query_getConnection(s)
        \/ query_callback(s)
        \/ tableExists_start(s)
        \/ tableExists_results(s)
        \/ addIndex_start(s)
        \/ addIndex_each(s)
        \/ createNewTable_start(s)
        \/ createNewTable_exists(s)
        \/ createNewTable_dropped(s)
        \/ createNewTable_created(s)
        \/ createNewTable_indexed(s)

SpecCreate == InitCreate /\ [][NextCreate]_vars

(* ----------------------- importing and exporting callers --------------- *)

PortTables == {A, <<"out">>}

\* A table as importFileAndCreateTable leaves it for a.csv.
ImportedA ==
    [ex |-> TRUE, cols |-> <<Email, First, Last>>,
     rows |-> <<Batch(A, DiskInit[PathA].n, FALSE)>>, idx |-> {}]

\* a.csv imported with no table named, t.csv imported into table a, and a
\* file that is not there.
ImportCalls ==
    {ImportFileAndCreateTableTask(
        [Descriptor(file.filepath, file.table, index) EXCEPT
            !.headers = headers, !.overwrite = overwrite, !.prependHeaders = prependHeaders]) :
        file \in {[filepath |-> PathA, table |-> NoName],
                  [filepath |-> PathT, table |-> A],
                  [filepath |-> PathGone, table |-> A]},
        index \in {NoIndex, Index(<<Email>>)},
        headers \in {<<>>, <<Email, First>>},
        overwrite \in BOOLEAN,
        prependHeaders \in BOOLEAN}

ExportCalls ==
    {ExportFileFromTableTask(filepath, table, headers) :
        filepath \in {PathOut, PathNoDir},
        table \in {NoName, A},
        headers \in {<<>>, <<Email>>}}

InitPort ==
    /\ db \in {[x \in PortTables |-> IF x = A THEN a ELSE NoTable] : a \in {NoTable, ImportedA}}
    /\ disk \in {DiskInit, [DiskInit EXCEPT ![PathOut] = File(<<Email>>, 1)]}
    /\ leased = 0
    /\ tasks = [s \in Slots |-> NoTask]
    /\ pre = [db |-> db, disk |-> disk, leased |-> leased]
    /\ issued = {}

NextPort ==
    \/ \E task \in ImportCalls \cup ExportCalls : Invoke(task)
    \/ \E s \in Slots :
        \/ query_getConnection(s)
        \/ query_callback(s)
        \/ query_loaded(s)
        \/ tableExists_start(s)
        \/ tableExists_results(s)
        \/ getFileHeaders_start(s)
        \/ getFileHeaders_firstline(s)
        \/ addIndex_start(s)
        \/ addIndex_each(s)
        \/ createNewTable_start(s)
        \/ createNewTable_exists(s)
        \/ createNewTable_dropped(s)
        \/ createNewTable_created(s)
        \/ createNewTable_indexed(s)
        \/ importFileAndCreateTable_start(s)
        \/ importFileAndCreateTable_headers(s)
        \/ importFileAndCreateTable_created(s)
        \/ importFileAndCreateTable_loaded(s)
        \/ getTableHeaders_start(s)
        \/ getTableHeaders_response(s)
        \/ exportFileFromTable_start(s)
        \/ exportFileFromTable_exists(s)
        \/ exportFileFromTable_unlink(s)
        \/ exportFileFromTable_headers(s)
        \/ exportFileFromTable_exported(s)

SpecPort == InitPort /\ [][NextPort]_vars

(* ------------------------ table-keeping callers ----------------------- *)

TableCalls ==
    {DropTableTask(names) : names \in {<<>>, <<T>>, <<T, StagingName(T)>>}}
    \cup {AddIndexTask(table, index) :
            table \in {NoName, T},
            index \in {NoIndex, Index(<<>>), Index(<<Email>>), Index(<<Email, First>>)}}
    \cup {TableExistsTask(T)}
    \cup {CreateNewTableTask(T, <<Email, First>>, index, FALSE, overwrite) :
            index \in {NoIndex, Index(<<Email>>)}, overwrite \in BOOLEAN}

InitTable ==
    /\ db = [x \in Tables |-> IF x = DropName(T) THEN NoTable ELSE OldTable]
    /\ disk = DiskInit
    /\ leased = 0
    /\ tasks = [s \in Slots |-> NoTask]
    /\ pre = [db |-> db, disk |-> disk, leased |-> leased]
    /\ issued = {}

NextTable ==
    \/ \E task \in TableCalls : Invoke(task)
    \/ \E s \in Slots :
        \/ query_getConnection(s)
        \/ query_callback(s)
        \/ tableExists_start(s)
        \/ tableExists_results(s)
        \/ addIndex_start(s)
        \/ addIndex_each(s)
        \/ createNewTable_start(s)
        \/ createNewTable_exists(s)
        \/ createNewTable_dropped(s)
        \/ createNewTable_created(s)
        \/ createNewTable_indexed(s)
        \/ dropTable_start(s)
        \/ dropTable_each(s)

SpecTable == InitTable /\ [][NextTable]_vars

(* ----------------------- callers on a worn pool ----------------------- *)

\* The calls that take connections from the pool, made one after another on
\* a production table that is there.
PoolCalls ==
    {CreateStagingTableTask(T), SwapTablesTask(T), ImportFileToTableTask(PathT, T, <<>>)}

InitPool ==
    /\ db = [x \in Tables |-> IF x = T THEN OldTable ELSE NoTable]
    /\ disk = DiskInit
    /\ leased = 0
    /\ tasks = [s \in Slots |-> NoTask]
    /\ pre = [db |-> db, disk |-> disk, leased |-> leased]
    /\ issued = {}

\* A callback of the call in progress runs.
StepPool ==
    \E s \in Slots :
        \/ query_getConnection(s)
        \/ query_callback(s)
        \/ query_loaded(s)
        \/ tableExists_start(s)
        \/ tableExists_results(s)
        \/ createStagingTable_start(s)
        \/ createStagingTable_exists(s)
        \/ createStagingTable_getConnection(s)
        \/ createStagingTable_drop(s)
        \/ createStagingTable_create(s)
        \/ swapTables_start(s)
        \/ swapTables_exists(s)
        \/ swapTables_getConnection(s)
        \/ swapTables_rename(s)
        \/ swapTables_rename_staging(s)
        \/ swapTables_drop(s)
        \/ swapTables_renamed(s)
        \/ importFileToTable_start(s)
        \/ importFileToTable_exists(s)
        \/ importFileToTable_staged(s)
        \/ importFileToTable_loaded(s)
        \/ importFileToTable_swapped(s)

NextPool ==
    \/ \E task \in PoolCalls : Invoke(task)
    \/ StepPool

\* The event loop runs a callback that is ready, and the backend answers
\* every statement it is sent: a step that can be taken is taken.
SpecPool == InitPool /\ [][NextPool]_vars /\ WF_vars(StepPool)

(* ------------------------- concurrent callers ------------------------- *)

\* Two imports into the same table, of different files.
RaceCalls ==
    {<<ImportFileToTableTask(PathT, T, <<>>), ImportFileToTableTask(PathA, T, <<>>)>>}

\* The program calls the method twice without waiting in between: both
\* promises are pending at once, and the program holds the two of them.
InvokeBoth(calls) ==
    /\ Quiet
    /\ tasks' = Each([s \in Slots |-> NoTask], Root, Task("caller", "end"), calls)
    /\ pre' = [db |-> db, disk |-> disk, leased |-> leased]
    /\ issued' = {}
    /\ UNCHANGED <<db, disk, leased>>

InitRace ==
    /\ db \in {[x \in Tables |->
                  CASE x = T -> OldTable
                    [] x = StagingName(T) -> st
                    [] OTHER -> NoTable] : st \in {NoTable, StaleStaging}}
    /\ disk = DiskInit
    /\ leased = 0
    /\ tasks = [s \in Slots |-> NoTask]
    /\ pre = [db |-> db, disk |-> disk, leased |-> leased]
    /\ issued = {}

NextRace ==
    \/ \E calls \in RaceCalls : InvokeBoth(calls)
    \/ \E s \in Slots :
        \/ query_getConnection(s)
        \/ query_callback(s)
        \/ query_loaded(s)
        \/ tableExists_start(s)
        \/ tableExists_results(s)
        \/ createStagingTable_start(s)
        \/ createStagingTable_exists(s)
        \/ createStagingTable_getConnection(s)
        \/ createStagingTable_drop(s)
        \/ createStagingTable_create(s)
        \/ swapTables_start(s)
        \/ swapTables_exists(s)
        \/ swapTables_getConnection(s)
        \/ swapTables_rename(s)
        \/ swapTables_rename_staging(s)
        \/ swapTables_drop(s)
        \/ swapTables_renamed(s)
        \/ importFileToTable_start(s)
        \/ importFileToTable_exists(s)
        \/ importFileToTable_staged(s)
        \/ importFileToTable_loaded(s)
        \/ importFileToTable_swapped(s)

SpecRace == InitRace /\ [][NextRace]_vars

(* ------------------------------ claims -------------------------------- *)

St == StagingName(T)
Dr == DropName(T)

RootTask == tasks[Root]

\* The table a file import is aimed at (index.js 345).
Target(task) == IF task.table = NoName THEN PathName(task.path) ELSE task.table

Issued(sql, ok) == [sql |-> sql, ok |-> ok] \in issued

SwapCalled == RootTask.fn = "swapTables" /\ RootTask.table = T

ImportCalled ==
    RootTask.fn = "importFileToTable" /\ RootTask.path # NoPath /\ Target(RootTask) = T

SwappedIn(tbl) == db[T] = tbl /\ ~Here(db, St) /\ ~Here(db, Dr)

\* C1 as stated: swapTables(base) called when base and base_staging both exist
\* leaves one table named base, with the schema and rows base_staging had
\* before the call, and neither base_staging nor base_drop.
C1_AsStated ==
    (SwapCalled /\ Quiet /\ Here(pre.db, T) /\ Here(pre.db, St))
        => SwappedIn(pre.db[St])

\* C1 (amended): swapTables(base) called when base and base_staging both exist
\* and base_drop does not, once it has finished, has resolved and leaves one
\* table named base, with the schema and rows base_staging had before the
\* call, and neither base_staging nor base_drop.
C1_SwapInstallsStaging ==
    (SwapCalled /\ Quiet /\ Here(pre.db, T) /\ Here(pre.db, St) /\ ~Here(pre.db, Dr))
        => (RootTask.out = "resolved" /\ SwappedIn(pre.db[St]))

C1_Witness ==
    /\ SwapCalled /\ Quiet
    /\ pre.db[T] = OldTable /\ pre.db[St] = StaleStaging /\ ~Here(pre.db, Dr)
    /\ db[T] = StaleStaging

\* The rows of a file, loaded whole.
FileRows(filepath) == <<Batch(PathName(filepath), disk[filepath].n, FALSE)>>

\* The statements of a three-step swap that the backend has not yet run.
SwapAt(pc) == \E s \in Slots : tasks[s].fn = "swapTables" /\ tasks[s].pc = pc

\* What the call in progress puts under the production name: the staging
\* table as swapTables found it, or the staging copy with the file's rows.
NewTable ==
    IF RootTask.fn = "swapTables"
    THEN pre.db[St]
    ELSE [pre.db[T] EXCEPT !.rows = FileRows(RootTask.path)]

\* C2 as stated: between the statements of a three-step swap a table named
\* base exists, and it is the complete old table or the complete staging
\* table.
C2_AsStated ==
    (SwapAt("rename_staging") \/ SwapAt("drop"))
        => (Here(db, T) /\ db[T] \in {pre.db[T], NewTable})

\* C2 (amended): in a three-step swap the table named base is the complete old
\* table until the first rename, is absent between the first and the second
\* rename (the old table then standing as base_drop), and is the complete
\* staging table from the second rename on; it is never a half-loaded table.
C2_SwapSteps ==
    /\ SwapAt("rename") => db[T] = pre.db[T] /\ Here(db, T)
    /\ SwapAt("rename_staging") => ~Here(db, T) /\ db[Dr] = pre.db[T]
    /\ SwapAt("drop") => db[T] = NewTable /\ ~Loading(db[T])

C2_Witness ==
    /\ SwapAt("drop")
    /\ RootTask.fn = "importFileToTable"
    /\ db[T] = [OldTable EXCEPT !.rows = <<Batch(T, 4, FALSE)>>]
    /\ db[Dr] = OldTable

\* C3: importFileToTable for a table that does not exist rejects, leaves no
\* table of that name once everything it started has finished, and issues no
\* bulk load and no rename.
C3_NeverCreates ==
    (ImportCalled /\ Quiet /\ ~Here(pre.db, T))
        => /\ RootTask.out = "rejected"
           /\ ~Here(db, T)
           /\ \A e \in issued : e.sql.op \notin {"LOAD DATA", "RENAME TABLE"}

\* C4: once the promise of query(command) has settled, resolved or rejected,
\* the connection it leased is back in the pool.
C4_QueryReleases ==
    (RootTask.fn = "query" /\ RootTask.out # "pending") => leased = pre.leased

\* C5: while importFileToTable stages and loads, the production table is the
\* table it was before the call; it changes only once the swap has renamed it
\* away, and it never holds the rows of a load in progress.
C5_ProductionUntouched ==
    (ImportCalled /\ Here(pre.db, T))
        => /\ (RootTask.pc \in {"start", "exists", "staged", "loaded"}) => db[T] = pre.db[T]
           /\ db[T] # pre.db[T] => Issued(SwapRename(T), TRUE)
           /\ ~Loading(db[T])

C5_Witness ==
    /\ ImportCalled
    /\ pre.db[T] = OldTable
    /\ db[T] = OldTable
    /\ db[St] = [OldTable EXCEPT !.rows = <<Batch(T, 4, TRUE)>>]

LoadedOk == \E e \in issued : e.sql.op = "LOAD DATA" /\ e.ok

ImportResult ==
    /\ RootTask.out = "resolved"
    /\ RootTask.val.n = disk[RootTask.path].n
    /\ db[T] = [pre.db[T] EXCEPT !.rows = FileRows(RootTask.path)]
    /\ ~Here(db, St)

\* C6 as stated: when the target table exists and the bulk load succeeds,
\* importFileToTable resolves with the load's row count, the table holds the
\* file's rows in place of its own with its columns unchanged, and no
\* <table>_staging is left.
C6_AsStated == (ImportCalled /\ Quiet /\ Here(pre.db, T) /\ LoadedOk) => ImportResult

\* C6 (amended): the same, when no <table>_drop exists at the call.
C6_ImportReplacesRows ==
    (ImportCalled /\ Quiet /\ Here(pre.db, T) /\ ~Here(pre.db, Dr) /\ LoadedOk)
        => ImportResult

C6_Witness ==
    /\ ImportCalled /\ Quiet /\ LoadedOk
    /\ RootTask.path = PathA
    /\ pre.db[T] = OldTable /\ pre.db[St] = StaleStaging
    /\ RootTask.val.n = 3
    /\ db[T] = [OldTable EXCEPT !.rows = <<Batch(A, 3, FALSE)>>]

\* C7: swapTables(base) with base absent and base_staging present resolves,
\* base_staging having become base; with neither present it rejects and no
\* table is created.
C7_FallbackRename ==
    (SwapCalled /\ Quiet /\ ~Here(pre.db, T))
        => IF Here(pre.db, St)
           THEN /\ RootTask.out = "resolved"
                /\ db = [pre.db EXCEPT ![T] = pre.db[St], ![St] = NoTable]
           ELSE /\ RootTask.out = "rejected"
                /\ db = pre.db

C7_Witness ==
    /\ SwapCalled /\ Quiet
    /\ ~Here(pre.db, T) /\ pre.db[St] = StaleStaging
    /\ db[T] = StaleStaging /\ ~Here(db, St)

C7_WitnessNeither ==
    /\ SwapCalled /\ Quiet
    /\ ~Here(pre.db, T) /\ ~Here(pre.db, St)
    /\ RootTask.out = "rejected"

\* C8: swapTables(base) called while base exists, whose rename of
\* base_staging to base fails, rejects and leaves no table named base: the
\* old table stands as base_drop and nowhere else.
C8_NoRollback ==
    (SwapCalled /\ Quiet /\ Here(pre.db, T) /\ Issued(SwapRenameStaging(T), FALSE))
        => /\ RootTask.out = "rejected"
           /\ ~Here(db, T)
           /\ db[Dr] = pre.db[T]
           /\ db[St] = pre.db[St]

C8_Witness ==
    /\ SwapCalled /\ Quiet
    /\ pre.db[T] = OldTable /\ ~Here(pre.db, St)
    /\ Issued(SwapRenameStaging(T), FALSE)
    /\ db[Dr] = OldTable

SwapInFlight == \E s \in Slots : tasks[s].fn = "swapTables" /\ tasks[s].pc # "end"

\* C9 as stated: started without a base_drop, calls of createStagingTable,
\* swapTables and importFileToTable leave no base_drop whenever no swap is in
\* flight.
C9_AsStated == ~SwapInFlight => ~Here(db, Dr)

\* C9 (amended): a call made when there is no base_drop leaves a base_drop,
\* once no swap is in flight, only if its swap had renamed base to base_drop
\* and then failed to rename base_staging to base.
C9_LeftoverOnlyFromFailedSwap ==
    (~SwapInFlight /\ ~Here(pre.db, Dr) /\ Here(db, Dr))
        => (Issued(SwapRename(T), TRUE) /\ Issued(SwapRenameStaging(T), FALSE))

C9_Witness ==
    /\ ImportCalled /\ Quiet
    /\ RootTask.out = "resolved"
    /\ ~Here(pre.db, Dr) /\ ~Here(db, Dr)
    /\ Issued(SwapDrop(T), TRUE)

MergeCalled == RootTask.fn = "mergeFiles"

\* The tables the call in progress has created so far.
CreatedTables(log) ==
    {e.sql.t : e \in {x \in log : x.ok /\ x.sql.op \in {"CREATE TABLE", "CREATE TABLE SELECT"}}}

\* The tables the call in progress has tried to drop.
DropAttempts(log) == {e.sql.t : e \in {x \in log : x.sql.op = "DROP TABLE IF EXISTS"}}

\* C10: at the step at which the promise of mergeFiles is rejected, a drop
\* has been attempted for every table the call has created.
C10_CleanupBeforeFailure ==
    [][(MergeCalled /\ RootTask.out = "pending" /\ tasks'[Root].out = "rejected")
          => CreatedTables(issued') \subseteq DropAttempts(issued')]_vars

\* The tables mergeFiles works with: one for every descriptor and the joined
\* table.
TablesOfCall == Range(RootTask.tables) \cup ({RootTask.mergeTable} \ {NoName})

\* C11: when mergeFiles has resolved, the output file is on disk, and none of
\* the tables of the call (the per-file tables and the joined table) and none
\* of the tables it created is left.
C11_ResolvedLeavesOnlyOutput ==
    (MergeCalled /\ RootTask.out = "resolved")
        => /\ disk[RootTask.output].ex
           /\ RootTask.mergeTable # NoName
           /\ \A x \in TablesOfCall \cup CreatedTables(issued) : ~Here(db, x)

C11_Witness ==
    /\ MergeCalled /\ RootTask.out = "resolved"
    /\ ~pre.disk[PathOut].ex
    /\ disk[PathOut] = File(<<Prefixed(A, Email), Prefixed(A, First), Prefixed(A, Last),
                              Prefixed(B, Email), Prefixed(B, ZipCode)>>, 2)
    /\ CreatedTables(issued) = {A, B, RootTask.mergeTable}
    /\ \A x \in MergeTables : ~Here(db, x)

\* The files parameter is empty, or one of its descriptors has no filepath
\* or no index.
Lacking(files) ==
    \/ files = <<>>
    \/ \E i \in DOMAIN files : files[i].filepath = NoPath \/ ~files[i].index.truthy

\* C12: mergeFiles called with an empty files list, or with a descriptor
\* that has no filepath or no index, rejects, starts no import, issues no
\* statement that creates, loads, joins or exports a table, and leaves the
\* tables and the files as they were.
C12_ValidatesBeforeActing ==
    (MergeCalled /\ Lacking(RootTask.files))
        => /\ RootTask.pc # "start" => RootTask.out = "rejected"
           /\ \A s \in Slots : tasks[s].fn # "importFileAndCreateTable"
           /\ \A e \in issued :
                e.sql.op \notin {"CREATE TABLE", "LOAD DATA", "CREATE TABLE SELECT",
                                 "SELECT INTO OUTFILE"}
           /\ db = pre.db
           /\ disk = pre.disk

\* C13: once mergeFiles has looked at its descriptors, the table of a
\* descriptor that names none is the stem of its filepath, and it is among
\* the tables the merge goes on with.
C13_TableDefaultsToStem ==
    (/\ MergeCalled /\ RootTask.pc # "start"
     /\ ~Lacking(RootTask.files) /\ RootTask.merge.truthy /\ RootTask.output # NoPath)
        => \A i \in DOMAIN RootTask.files :
             RootTask.files[i].table = NoName
                => PathName(RootTask.files[i].filepath) \in Range(RootTask.tables)

CreateCalled == RootTask.fn = "createNewTable" /\ RootTask.table = T

\* The columns the request asks an index for, and the columns it asks a
\* table of, both as the CREATE statements name them.
IndexAsked ==
    IF RootTask.pc = "start"
    THEN IndexColumns(RootTask.table, RootTask.index, RootTask.prependHeaders)
    ELSE RootTask.index

ColumnsAsked == HeaderColumns(RootTask.table, RootTask.headers, RootTask.prependHeaders)

IndexIsHeader == Range(IndexAsked.list) \subseteq Range(ColumnsAsked)

\* Statements that define, change or remove a table.
Ddl ==
    {e \in issued :
        e.sql.op \in {"CREATE TABLE", "CREATE TABLE LIKE", "CREATE TABLE SELECT",
                      "DROP TABLE", "DROP TABLE IF EXISTS", "RENAME TABLE", "CREATE INDEX"}}

RejectedUntouched ==
    /\ Quiet => RootTask.out = "rejected"
    /\ Ddl = {}
    /\ db = pre.db

\* C14: createNewTable with an index that is not one of the headers rejects
\* with no DDL issued: no table is created or dropped and no index command
\* is sent, whatever overwrite is and whether or not the table exists.
C14_IndexMustBeHeader ==
    (CreateCalled /\ RootTask.index.truthy /\ ~IndexIsHeader) => RejectedUntouched

\* C15: createNewTable for an absent table, with a non-empty headers list and
\* an index that is one of the headers, resolves with the table name, and
\* the table then has an index on that column.
C15_IndexedTableCreated ==
    (/\ CreateCalled /\ Quiet /\ ~Here(pre.db, T)
     /\ RootTask.headers # <<>> /\ RootTask.index.truthy /\ IndexIsHeader)
        => /\ RootTask.out = "resolved"
           /\ RootTask.val.t = T
           /\ Here(db, T)
           /\ Range(IndexAsked.list) \subseteq db[T].idx

\* C16: createNewTable with an empty headers list rejects with no DDL
\* issued; an existing table of that name is not dropped, overwrite or not.
C16_EmptyHeadersRejected ==
    (CreateCalled /\ RootTask.headers = <<>>) => RejectedUntouched

\* C17: createNewTable for a table that exists, without overwrite, rejects
\* and leaves every table, the existing one with its columns and rows
\* included, as it was.
C17_ExistingTableKept ==
    (CreateCalled /\ Here(pre.db, T) /\ ~RootTask.overwrite)
        => /\ db = pre.db
           /\ Ddl = {}
           /\ RootTask.out # "resolved"
           /\ Quiet => RootTask.out = "rejected"

\* The table of the name was made by an earlier createNewTable call.
C17_Witness ==
    /\ CreateCalled /\ Quiet /\ ~RootTask.overwrite
    /\ RootTask.headers = <<Email, First>> /\ ~RootTask.index.truthy
    /\ pre.db[T] = [ex |-> TRUE, cols |-> <<Email, First, Last>>, rows |-> <<>>, idx |-> {}]
    /\ db[T] = pre.db[T]
    /\ RootTask.out = "rejected"

\* A request createNewTable's checks let through and the backend can serve:
\* some headers, and no index or an index on some but not all of them.
Servable ==
    /\ RootTask.headers # <<>>
    /\ RootTask.index.truthy =>
         (IndexIsHeader /\ ~(Range(ColumnsAsked) \subseteq Range(IndexAsked.list)))

\* C18: createNewTable with overwrite for a table that exists creates the
\* new table only after the drop of the old one, resolves with the table
\* name, and leaves a table with exactly the headers of the call as its
\* columns and no rows.
C18_OverwriteReplaces ==
    (CreateCalled /\ Here(pre.db, T) /\ RootTask.overwrite /\ Servable)
        => /\ Issued(CreateTable(T, ColumnsAsked), TRUE) => Issued(DropTableIfExists(T), TRUE)
           /\ RootTask.out # "rejected"
           /\ Quiet => /\ RootTask.out = "resolved"
                       /\ RootTask.val.t = T
                       /\ Here(db, T)
                       /\ db[T].cols = ColumnsAsked
                       /\ db[T].rows = <<>>

C18_Witness ==
    /\ CreateCalled /\ Quiet /\ RootTask.overwrite
    /\ pre.db[T] = OldTable
    /\ RootTask.headers = <<Email, First>>
    /\ RootTask.out = "resolved"
    /\ db[T] = [ex |-> TRUE, cols |-> <<Email, First>>, rows |-> <<>>, idx |-> {Email}]

StagingCalled == RootTask.fn = "createStagingTable" /\ RootTask.table = T

\* C19: createStagingTable(base) called when base does not exist rejects
\* with no DDL issued: no base_staging is created, and a base_staging that
\* was there is still there.
C19_NoBaseNoStaging ==
    (StagingCalled /\ ~Here(pre.db, T)) => RejectedUntouched

C19_Witness ==
    /\ StagingCalled /\ Quiet
    /\ ~Here(pre.db, T) /\ pre.db[St] = StaleStaging
    /\ RootTask.out = "rejected"
    /\ db[St] = StaleStaging

\* C20: createStagingTable(base) called when base exists resolves with the
\* name base_staging; base_staging then has the columns of base in their
\* order and no rows, whatever base_staging was before, and base is as it
\* was.
C20_StagingCopiesBase ==
    (StagingCalled /\ Here(pre.db, T))
        => /\ db[T] = pre.db[T]
           /\ db[Dr] = pre.db[Dr]
           /\ RootTask.out # "rejected"
           /\ Quiet => /\ RootTask.out = "resolved"
                       /\ RootTask.val.t = St
                       /\ Here(db, St)
                       /\ db[St].cols = pre.db[T].cols
                       /\ db[St].rows = <<>>

C20_Witness ==
    /\ StagingCalled /\ Quiet
    /\ pre.db[T] = OldTable /\ pre.db[St] = StaleStaging
    /\ RootTask.out = "resolved"
    /\ db[T] = OldTable
    /\ db[St] = [OldTable EXCEPT !.rows = <<>>]

ImportNewCalled == RootTask.fn = "importFileAndCreateTable" /\ RootTask.path # NoPath

ExportCalled == RootTask.fn = "exportFileFromTable" /\ RootTask.path # NoPath

\* The table the call in progress is aimed at.
Tgt == Target(RootTask)

\* The file at a path was there when the call was made.
WasOnDisk(filepath) == filepath \in DOMAIN pre.disk /\ pre.disk[filepath].ex

\* C21: importFileAndCreateTable of a file that is on disk, with no table of
\* the target name and no prefixing asked, resolves with the number of data
\* rows of the file and leaves a table, named by the stem of the file when no
\* table is given, with the header fields of the file (or the headers given)
\* as columns and the data rows of the file as rows.
C21_ImportCreatesTable ==
    (/\ ImportNewCalled /\ Quiet /\ ~RootTask.prependHeaders
     /\ WasOnDisk(RootTask.path) /\ ~Here(pre.db, Tgt))
        => /\ RootTask.out = "resolved"
           /\ RootTask.val.n = pre.disk[RootTask.path].n
           /\ Here(db, Tgt)
           /\ db[Tgt].cols = IF RootTask.headers = <<>>
                             THEN pre.disk[RootTask.path].hdr ELSE RootTask.headers
           /\ db[Tgt].rows = FileRows(RootTask.path)

\* a.csv, three data rows, imported with no table named: table a
C21_Witness ==
    /\ ImportNewCalled /\ Quiet
    /\ RootTask.path = PathA /\ RootTask.headers = <<>> /\ ~RootTask.index.truthy
    /\ ~Here(pre.db, A)
    /\ RootTask.val.n = 3
    /\ db[A] = [ex |-> TRUE, cols |-> <<Email, First, Last>>,
                rows |-> <<Batch(A, 3, FALSE)>>, idx |-> {}]

\* C22: importFileAndCreateTable of a filepath that is not on disk rejects
\* with no statement issued: no table is created, and an existing table of
\* the target name is kept, overwrite or not.
C22_MissingFileRejected ==
    (ImportNewCalled /\ ~WasOnDisk(RootTask.path))
        => /\ issued = {}
           /\ db = pre.db
           /\ RootTask.pc # "start" => (RootTask.out = "rejected" /\ Quiet)

C22_Witness ==
    /\ ImportNewCalled /\ Quiet
    /\ RootTask.path = PathGone /\ RootTask.overwrite /\ RootTask.headers # <<>>
    /\ Tgt = A
    /\ pre.db[Tgt] = ImportedA
    /\ db[Tgt] = ImportedA
    /\ RootTask.out = "rejected"

\* C23: exportFileFromTable for a table that does not exist rejects, leaves
\* the files as they were, and does not issue the export statement.
C23_NoTableNoExport ==
    (ExportCalled /\ ~Here(pre.db, Tgt))
        => /\ Quiet => RootTask.out = "rejected"
           /\ disk = pre.disk
           /\ \A e \in issued : e.sql.op # "SELECT INTO OUTFILE"

\* C24: exportFileFromTable, with no headers given, of a table that exists to
\* a path the backend can write: the file that was at the path is gone before
\* the export statement runs; the call resolves with the row count of that
\* statement, and the file then holds the columns of the table, in their
\* order, as its header row and all the rows of the table.
C24_ExportWritesTable ==
    (ExportCalled /\ Here(pre.db, Tgt) /\ RootTask.headers = <<>> /\ Writable(RootTask.path))
        => /\ db = pre.db
           /\ RootTask.out # "rejected"
           /\ RootTask.pc = "headers" => ~disk[RootTask.path].ex
           /\ Quiet => /\ RootTask.out = "resolved"
                       /\ disk[RootTask.path] = File(db[Tgt].cols, Rows(db[Tgt].rows))
                       /\ RootTask.val.n = Rows(db[Tgt].rows) + 1
                       /\ Issued(SelectIntoOutfile(db[Tgt].cols, Tgt, RootTask.path), TRUE)

C24_Witness ==
    /\ ExportCalled /\ Quiet /\ RootTask.headers = <<>>
    /\ pre.disk[PathOut] = File(<<Email>>, 1)
    /\ pre.db[A] = ImportedA
    /\ RootTask.out = "resolved"
    /\ disk[PathOut] = File(<<Email, First, Last>>, 3)
    /\ RootTask.val.n = 4

\* C25: exportFileFromTable, with no headers given, of the table that
\* importFileAndCreateTable made of a file with no headers given (an import
\* that returned the number of data rows of the file, C21): the file written
\* has the header row and the number of rows of the file imported, and the
\* export resolves with the count the import returned.
C25_RoundTrip ==
    (/\ ExportCalled /\ Quiet /\ RootTask.out = "resolved" /\ RootTask.headers = <<>>
     /\ Tgt = A /\ pre.db[A] = ImportedA)
        => /\ disk[RootTask.path].hdr = disk[PathA].hdr
           /\ disk[RootTask.path].n = disk[PathA].n
           /\ RootTask.val.n = disk[PathA].n

\* The join statements the call in progress has sent.
Joins == {e \in issued : e.sql.op = "CREATE TABLE SELECT"}

\* The prefixed index column of a descriptor, as table.column.
JoinColumn(file) == Ref(file.table, Prefixed(file.table, file.index.list[1]))

Equates(on, l, r) == \E i \in DOMAIN on : {on[i].l, on[i].r} = {l, r}

ExportPhase ==
    {e \in issued : /\ e.sql.t = RootTask.mergeTable
                    /\ e.sql.op \in {"SHOW TABLES LIKE", "SELECT COLUMNS", "SELECT INTO OUTFILE"}}

\* Statements of the cleanup phase: dropTable is the only caller of a drop
\* that names the joined table, and it is called with every table at once.
CleanupPhase ==
    {e \in issued : e.sql.op = "DROP TABLE IF EXISTS" /\ e.sql.t = RootTask.mergeTable}

\* The table importFileAndCreateTable fills for a descriptor.
TableOf(file) == IF file.table = NoName THEN PathName(file.filepath) ELSE file.table

LoadedInto(table) == \E e \in issued : e.ok /\ e.sql.op = "LOAD DATA" /\ e.sql.t = table

Exported == \E e \in issued : e.ok /\ e.sql.op = "SELECT INTO OUTFILE" /\ e.sql.path = RootTask.output

\* C27: mergeFiles sends the join only after a bulk load has succeeded for the
\* table of every descriptor it was given, sends the statements of the export only after
\* the join has succeeded, calls dropTable only after the export statement has
\* succeeded, and resolves with the row count of the export statement (the
\* rows of the file written and its header row).
C27_PhasesInOrder ==
    MergeCalled =>
        /\ Joins # {} => \A i \in DOMAIN RootTask.files : LoadedInto(TableOf(RootTask.files[i]))
        /\ ExportPhase # {} => \E e \in Joins : e.ok
        /\ (CleanupPhase # {} \/ \E s \in Slots : tasks[s].fn = "dropTable") => Exported
        /\ RootTask.out = "resolved"
              => /\ CleanupPhase # {}
                 /\ RootTask.val.n = disk[RootTask.output].n + 1

C27_Witness ==
    /\ MergeCalled /\ RootTask.out = "resolved" /\ Quiet
    /\ RootTask.merge = OnEmail
    /\ LoadedInto(A) /\ LoadedInto(B)
    /\ Exported
    /\ Issued(DropTableIfExists(A), TRUE) /\ Issued(DropTableIfExists(B), TRUE)
    /\ disk[PathOut].n = 2
    /\ RootTask.val.n = 3

DropCalled == RootTask.fn = "dropTable"

AddIndexCalled == RootTask.fn = "addIndex"

TableExistsCalled == RootTask.fn = "tableExists" /\ RootTask.table = T

\* C28: dropTable of a name or a list of names sends DROP TABLE IF EXISTS for
\* the names and nothing else; each of them succeeds, whether the table is
\* there or not, so the call never rejects, and once it has finished it has
\* resolved, none of the tables named is there and every other table is as
\* it was.  This holds of a call made after the same call as well.
C28_DropIfExists ==
    (DropCalled /\ RootTask.names # <<>>)
        => /\ \A e \in issued : /\ e.ok
                                /\ e.sql.op = "DROP TABLE IF EXISTS"
                                /\ e.sql.t \in Range(RootTask.names)
           /\ \A x \in DOMAIN db \ Range(RootTask.names) : db[x] = pre.db[x]
           /\ RootTask.out # "rejected"
           /\ Quiet => /\ RootTask.out = "resolved"
                       /\ \A x \in Range(RootTask.names) :
                            ~Here(db, x) /\ Issued(DropTableIfExists(x), TRUE)

\* the call with two names, made again when both tables are gone
C28_Witness ==
    /\ DropCalled /\ Quiet
    /\ RootTask.names = <<T, St>>
    /\ ~Here(pre.db, T) /\ ~Here(pre.db, St)
    /\ RootTask.out = "resolved"
    /\ ~Here(db, T) /\ ~Here(db, St)
    /\ issued = {[sql |-> DropTableIfExists(T), ok |-> TRUE],
                 [sql |-> DropTableIfExists(St), ok |-> TRUE]}

\* C29: addIndex with no table, with no column list or with an empty column
\* list sends no statement and rejects.
C29_EmptyIndexRejected ==
    (/\ AddIndexCalled
     /\ \/ RootTask.table = NoName
        \/ ~RootTask.index.truthy
        \/ RootTask.index.list = <<>>)
        => /\ issued = {}
           /\ RootTask.pc # "start" => RootTask.out = "rejected"

\* C30: a tableExists call made right after a createNewTable call that
\* resolved finds the table there; one made right after a dropTable call
\* that named the table and resolved finds it gone; and every tableExists
\* call settles only after its own SHOW TABLES LIKE has been answered,
\* resolving when the table was there at the call and rejecting when not.
C30_TableExistsAsksBackend ==
    [][/\ (/\ tasks'[Root].fn = "tableExists" /\ tasks'[Root].pc = "start"
           /\ RootTask.out = "resolved")
            => /\ (RootTask.fn = "createNewTable" /\ RootTask.table = tasks'[Root].table)
                    => Here(pre'.db, tasks'[Root].table)
               /\ (RootTask.fn = "dropTable" /\ tasks'[Root].table \in Range(RootTask.names))
                    => ~Here(pre'.db, tasks'[Root].table)
       /\ (tasks'[Root].fn = "tableExists" /\ tasks'[Root].out # "pending")
            => /\ [sql |-> ShowTablesLike(tasks'[Root].table), ok |-> TRUE] \in issued'
               /\ tasks'[Root].out = "resolved" <=> Here(pre'.db, tasks'[Root].table)
               /\ db' = pre'.db]_vars

\* the table found is the one a createNewTable call made: two columns and
\* no rows
C30_Witness ==
    /\ TableExistsCalled /\ Quiet
    /\ RootTask.out = "resolved"
    /\ pre.db[T].cols = <<Email, First>> /\ pre.db[T].rows = <<>>
    /\ Issued(ShowTablesLike(T), TRUE)

\* The calls that lease a connection themselves, and the call built on them.
LeasingCalled == RootTask.fn \in {"createStagingTable", "swapTables", "importFileToTable"}

\* C31: once a createStagingTable, swapTables or importFileToTable call and
\* everything it started has finished, as many connections are leased from
\* the pool as before the call.  Stated for the calls in which the backend
\* refused no statement, where query itself returns every connection.
C31_LeasesReturned ==
    (LeasingCalled /\ Quiet /\ RootTask.out # "pending" /\ \A e \in issued : e.ok)
        => leased = pre.leased

LoadIssued == \E e \in issued : e.sql.op = "LOAD DATA"

SwapStarted == \E s \in Slots : tasks[s].fn = "swapTables"

\* C34: in importFileToTable the bulk load is sent only after the
\* createStagingTable of this call has resolved (its CREATE TABLE ... LIKE
\* has succeeded), and swapTables is started only after the bulk load has
\* succeeded.
C34_StageLoadSwap ==
    ImportCalled =>
        /\ (LoadIssued \/ \E s \in Slots : tasks[s].sql.op = "LOAD DATA")
              => Issued(CreateTableLike(St, T), TRUE)
        /\ SwapStarted => LoadedOk

LoadFailed == \E e \in issued : e.sql.op = "LOAD DATA" /\ ~e.ok

\* C36: when the bulk load of importFileToTable has failed, the call does not
\* resolve and has rejected once it has finished, swapTables is not started
\* and no rename and no drop of the swap is sent, and the production table
\* and the table of the _drop name are as they were before the call.
C36_FailedLoadKeepsProduction ==
    (ImportCalled /\ LoadFailed)
        => /\ RootTask.out # "resolved"
           /\ Quiet => RootTask.out = "rejected"
           /\ ~SwapStarted
           /\ \A e \in issued : e.sql.op \notin {"RENAME TABLE", "DROP TABLE"}
           /\ db[T] = pre.db[T]
           /\ db[Dr] = pre.db[Dr]

\* gone.csv is not on disk: the production table stands, next to an empty
\* staging table
C36_Witness ==
    /\ ImportCalled /\ Quiet
    /\ RootTask.path = PathGone
    /\ LoadFailed
    /\ RootTask.out = "rejected"
    /\ pre.db[T] = OldTable
    /\ db[T] = OldTable
    /\ db[St] = [OldTable EXCEPT !.rows = <<>>]

\* The statements a step has added to the log.
Sent == issued' \ issued

ByQuery(e) ==
    \E s \in Slots : /\ tasks[s].fn = "query" /\ tasks[s].pc = "query"
                     /\ tasks[s].sql = e.sql
                     /\ tasks'[s] # tasks[s]

\* A callback of fn at one of pcs has run in this step for table.
ByOwn(fn, pcs, table) ==
    \E s \in Slots : /\ tasks[s].fn = fn /\ tasks[s].pc \in pcs
                     /\ tasks[s].table = table
                     /\ tasks'[s] # tasks[s]

\* C38 as stated: every statement sent to the backend is sent by query.
C38_AllThroughQuery == [][\A e \in Sent : ByQuery(e)]_vars

\* C38: every statement sent to the backend is sent by query, but for the
\* DROP TABLE IF EXISTS and CREATE TABLE ... LIKE of createStagingTable and
\* the two RENAME TABLE and the DROP TABLE of swapTables when the production
\* table exists, which these two send on a connection they lease themselves.
C38_QueryOrOwnConnection ==
    [][\A e \in Sent :
        \/ ByQuery(e)
        \/ /\ e.sql \in {[NoSql EXCEPT !.op = "DROP TABLE IF EXISTS", !.t = St],
                         [NoSql EXCEPT !.op = "CREATE TABLE LIKE", !.t = St, !.t2 = T]}
           /\ ByOwn("createStagingTable", {"drop", "create"}, T)
        \/ /\ e.sql \in {[NoSql EXCEPT !.op = "RENAME TABLE", !.t = T, !.t2 = Dr],
                         [NoSql EXCEPT !.op = "RENAME TABLE", !.t = St, !.t2 = T],
                         [NoSql EXCEPT !.op = "DROP TABLE", !.t = Dr]}
           /\ ByOwn("swapTables", {"rename", "rename_staging", "drop"}, T)]_vars

\* an import that went through both: its SHOW TABLES LIKE and LOAD DATA by
\* query, its staging and its swap on connections of their own
C38_Witness ==
    /\ ImportCalled /\ Quiet /\ RootTask.out = "resolved"
    /\ Issued(ShowTablesLike(T), TRUE)
    /\ Issued(LoadData(RootTask.path, St, <<>>), TRUE)
    /\ Issued(CreateTableLike(St, T), TRUE)
    /\ Issued(DropTableStmt(Dr), TRUE)
    /\ leased = pre.leased + 2

\* An import mergeFiles dispatched is still in flight.
ImportInFlight ==
    \E s \in Slots : tasks[s].fn = "importFileAndCreateTable" /\ tasks[s].out = "pending"

\* C33: mergeFiles has not settled while an import it dispatched is in
\* flight, and once it has settled no step of the call creates a table.
\* Stated for the calls whose descriptors all have a filepath and an index,
\* which settle in the flow of the phases and not in the loop that checks
\* the descriptors.
C33_SettlesAfterImports ==
    [][(MergeCalled /\ ~Lacking(RootTask.files) /\ RootTask.out # "pending")
          => /\ ~ImportInFlight
             /\ tasks'[Root] = RootTask
                   => CreatedTables(issued') \subseteq CreatedTables(issued)]_vars

\* C37: every column the bulk load of importFileAndCreateTable names is a
\* column of the table the load is into, the table the call has created.
C37_LoadNamesTableColumns ==
    ImportNewCalled =>
        \A e \in issued :
            e.sql.op = "LOAD DATA"
                => /\ Issued(CreateTable(e.sql.t, db[e.sql.t].cols), TRUE)
                   /\ Range(e.sql.cols) \subseteq Range(db[e.sql.t].cols)

\* C35: every createStagingTable, swapTables and importFileToTable call
\* settles, whatever calls were made before it.
C35_EveryCallSettles ==
    (LeasingCalled /\ RootTask.out = "pending") ~> (RootTask.out # "pending")

\* Two calls were made at once, and both have run to their end.
BothDone ==
    /\ RootTask.fn = "caller" /\ Quiet
    /\ \A c \in RootTask.kids : tasks[c].fn = "importFileToTable" /\ tasks[c].out # "pending"

\* C32: once two importFileToTable calls made at once on the same table have
\* both settled, the table is there and holds the rows of one of the two
\* files, all of them and nothing else, and no table of the _staging or of
\* the _drop name is left.
C32_ConcurrentImportsSafe ==
    (BothDone /\ Here(pre.db, T))
        => /\ Here(db, T)
           /\ \E c \in RootTask.kids : db[T].rows = FileRows(tasks[c].path)
           /\ ~Here(db, St)
           /\ ~Here(db, Dr)

====
